---- MODULE Spec2Model ----
(***************************************************************************)
(* Divergence detection engine of stockcharts                              *)
(* (src/src/stockcharts/indicators/divergence.py and pivots.py).           *)
(*                                                                         *)
(* Every function of the engine is pure, so each specification below draws *)
(* the arguments of one call from bounded sets (Init) and its actions      *)
(* apply the function and record what it returned.                         *)
(*                                                                         *)
(* Conventions                                                             *)
(*  - a pandas Series / DataFrame column is a TLA+ sequence; iloc position *)
(*    i (0-based, as in the code) is element i+1, read with At(s, i);      *)
(*  - the index of a table is a DatetimeIndex of consecutive days; the     *)
(*    label of a row is its day number, 0 for the first row of the table   *)
(*    the caller passed; df.tail(k) keeps the labels; a label (Timestamp)  *)
(*    is truthy, None is not;                                              *)
(*  - prices are integers; RSI values are integers counted in half points, *)
(*    so the 0.5-point tolerance is the integer 1;                         *)
(*  - fractions (tolerances, thresholds, ATR, scores) are kept exact as    *)
(*    numerator/denominator and compared by cross-multiplication; IEEE     *)
(*    rounding of the float arithmetic is not modelled.                    *)
(***************************************************************************)
EXTENDS Integers, Sequences, FiniteSets, TLC

VARIABLES pc, call, ret

vars == <<pc, call, ret>>

\* Python's None where a label is expected (labels are >= 0)
None == -1

\* the value of ret before the call returns
NotCalled == "not called"

\* an optional record is a sequence of length <= 1; None is the empty one
Nothing == <<>>

\* Series.iloc[i]
At(s, i) == s[i + 1]

\* elements of a sequence
Elems(s) == {s[k] : k \in 1..Len(s)}

\* all sequences over S of length n, and of length at most n
SeqsOfLen(S, n) == [1..n -> S]
SeqsUpTo(S, n) == UNION {SeqsOfLen(S, k) : k \in 0..n}

Abs(x) == IF x < 0 THEN -x ELSE x

(***************************************************************************)
(* find_swing_points (divergence.py 214-252)                               *)
(***************************************************************************)

\* float('nan') as a value of a series
NaN == -2

\* <=, >= and < of two floats: False when either is NaN
FloatLe(x, y) == x # NaN /\ y # NaN /\ x <= y
FloatGe(x, y) == x # NaN /\ y # NaN /\ x >= y
FloatLt(x, y) == x # NaN /\ y # NaN /\ x < y

\* (a slip that would accept a tie with a neighbour as a swing high)
RECURSIVE IsSwingHigh_Tie(_, _, _, _)
IsSwingHigh_Tie(series, window, i, j) ==
    IF j > window THEN TRUE
    ELSE IF j # 0 /\ FloatLt(At(series, i), At(series, i + j)) THEN FALSE
    ELSE IsSwingHigh_Tie(series, window, i, j + 1)

\* the inner loop over j in range(-window, window + 1) for the high test:
\* False as soon as some neighbour is >= the value at i
RECURSIVE IsSwingHigh(_, _, _, _)
IsSwingHigh(series, window, i, j) ==
    IF j > window THEN TRUE
    ELSE IF j # 0 /\ FloatLe(At(series, i), At(series, i + j)) THEN FALSE
    ELSE IsSwingHigh(series, window, i, j + 1)

\* the inner loop for the low test
RECURSIVE IsSwingLow(_, _, _, _)
IsSwingLow(series, window, i, j) ==
    IF j > window THEN TRUE
    ELSE IF j # 0 /\ FloatGe(At(series, i), At(series, i + j)) THEN FALSE
    ELSE IsSwingLow(series, window, i, j + 1)

\* first and last-but-one position of the outer loop: range(window, len - window)
SwingFirst(series, window) == window
SwingStop(series, window) == Len(series) - window

\* the outer loop, collecting the positions that dropna().index leaves: those
\* where the test passed and the value written (the value at i) is not NaN
RECURSIVE SwingScan(_, _, _, _)
SwingScan(series, window, i, acc) ==
    IF i >= SwingStop(series, window) THEN acc
    ELSE SwingScan(series, window, i + 1,
            [highs |-> IF /\ IsSwingHigh(series, window, i, -window)
                          /\ At(series, i) # NaN
                       THEN Append(acc.highs, i) ELSE acc.highs,
             lows  |-> IF /\ IsSwingLow(series, window, i, -window)
                          /\ At(series, i) # NaN
                       THEN Append(acc.lows, i) ELSE acc.lows])

\* find_swing_points(series, window) followed by .dropna().index:
\* the positions of the swing highs and of the swing lows
find_swing_points(series, window) ==
    SwingScan(series, window, SwingFirst(series, window),
              [highs |-> <<>>, lows |-> <<>>])

(***************************************************************************)
(* ema_derivative_pivots (pivots.py 17-86)                                 *)
(*                                                                         *)
(* ewm(span, adjust=False).mean(): y[0] = x[0],                            *)
(*   y[t] = ((span - 1) * y[t-1] + 2 * x[t]) / (span + 1).                 *)
(* The smoothed column is kept as the integers y[t] * (span + 1)^t.        *)
(***************************************************************************)
\* acc holds the scaled values of the positions before Len(acc), and
\* scale = (span + 1)^(Len(acc) - 1)
RECURSIVE EmaScan(_, _, _, _)
EmaScan(series, span, scale, acc) ==
    IF Len(acc) >= Len(series) THEN acc
    ELSE EmaScan(series, span, scale * (span + 1),
                 Append(acc, (span - 1) * acc[Len(acc)]
                             + 2 * series[Len(acc) + 1] * scale))

\* _ema(series, span)
ema(series, span) ==
    IF series = <<>> THEN <<>> ELSE EmaScan(series, span, 1, <<At(series, 0)>>)

\* sign of smoothed.diff() at position t >= 1:
\* y[t] - y[t-1] has the sign of the scaled y[t] less (span + 1) times the
\* scaled y[t-1]
DerivSign(smoothed, span, t) ==
    LET d == At(smoothed, t) - (span + 1) * At(smoothed, t - 1)
    IN  IF d > 0 THEN 1 ELSE IF d < 0 THEN -1 ELSE 0

\* (a slip that would take a derivative of zero for a turn upwards)
IsEmaLow_NonNegative(smoothed, span, t) ==
    t >= 2 /\ DerivSign(smoothed, span, t - 1) < 0
           /\ DerivSign(smoothed, span, t) >= 0

\* (derivative.shift(1) < 0) & (derivative > 0); NaN at t < 2 compares False
IsEmaLow(smoothed, span, t) ==
    t >= 2 /\ DerivSign(smoothed, span, t - 1) < 0
           /\ DerivSign(smoothed, span, t) > 0

\* (a slip that would select the highs with the mask of the lows)
IsEmaHigh_LowMask(smoothed, span, t) == IsEmaLow(smoothed, span, t)

\* (derivative.shift(1) > 0) & (derivative < 0)
IsEmaHigh(smoothed, span, t) ==
    t >= 2 /\ DerivSign(smoothed, span, t - 1) > 0
           /\ DerivSign(smoothed, span, t) < 0

\* boolean-mask selection keeps the rows in index order
RECURSIVE MaskSelect(_, _, _, _)
MaskSelect(smoothed, span, t, kind) ==
    IF t >= Len(smoothed) THEN <<>>
    ELSE (IF (kind = "low" /\ IsEmaLow(smoothed, span, t))
             \/ (kind = "high" /\ IsEmaHigh(smoothed, span, t))
          THEN <<t>> ELSE <<>>) \o MaskSelect(smoothed, span, t + 1, kind)

\* the pivots of one column
ema_pivots_of(series, span) ==
    LET smoothed == ema(series, span)
    IN  [highs |-> MaskSelect(smoothed, span, 0, "high"),
         lows  |-> MaskSelect(smoothed, span, 0, "low")]

(***************************************************************************)
(* Calls of the two pivot detectors on one series                          *)
(***************************************************************************)
PivMaxLen == 5
PivMaxVal == 2
PivMaxWindow == 2
PivMaxSpan == 2

InitPivots ==
    /\ pc = "start"
    /\ call \in [series : SeqsUpTo(0..PivMaxVal, PivMaxLen),
                 window : 1..PivMaxWindow,
                 span   : 1..PivMaxSpan]
    /\ ret = NotCalled

CallFindSwingPoints ==
    /\ pc = "start"
    /\ pc' = "swing"
    /\ ret' = find_swing_points(call.series, call.window)
    /\ UNCHANGED call

CallEmaPivots ==
    /\ pc = "start"
    /\ pc' = "ema"
    /\ ret' = ema_pivots_of(call.series, call.span)
    /\ UNCHANGED call

NextPivots == CallFindSwingPoints \/ CallEmaPivots

SpecPivots == InitPivots /\ [][NextPivots]_vars

\* position i is a strict maximum / minimum of its window, by the definition
StrictMaxAt(s, w, i) ==
    /\ w <= i /\ i < Len(s) - w
    /\ \A j \in (i - w)..(i + w) : j # i => At(s, i) > At(s, j)

StrictMinAt(s, w, i) ==
    /\ w <= i /\ i < Len(s) - w
    /\ \A j \in (i - w)..(i + w) : j # i => At(s, i) < At(s, j)

\* C1: the windowed strategy reports position i as a high iff w <= i < len - w
\* and value[i] is strictly greater than every other value in [i-w, i+w]; lows
\* are the strict-minimum condition; no position within w of a boundary is a
\* pivot and a series of length <= 2w has no pivots.
C1_WindowedPivots ==
    pc = "swing" =>
        LET s == call.series
            w == call.window
        IN  /\ \A i \in 0..(Len(s) - 1) :
                  /\ (i \in Elems(ret.highs)) <=> StrictMaxAt(s, w, i)
                  /\ (i \in Elems(ret.lows)) <=> StrictMinAt(s, w, i)
            /\ Elems(ret.highs) \cup Elems(ret.lows) \subseteq 0..(Len(s) - 1)
            /\ \A i \in Elems(ret.highs) \cup Elems(ret.lows) :
                  i >= w /\ i <= Len(s) - 1 - w
            /\ (Len(s) <= 2 * w => ret.highs = <<>> /\ ret.lows = <<>>)

\* a call that found a high and a low, two bars apart from the boundaries
C1_Witness ==
    /\ pc = "swing"
    /\ call.window = 2
    /\ Len(call.series) = 5
    /\ ret.highs = <<2>>

StrictlyIncreasing(s) == \A k \in 1..(Len(s) - 1) : s[k] < s[k + 1]

\* C2: for both strategies the highs and the lows of one series are disjoint
\* and each sequence is in strictly increasing position order.
C2_DisjointOrdered ==
    pc \in {"swing", "ema"} =>
        /\ Elems(ret.highs) \cap Elems(ret.lows) = {}
        /\ StrictlyIncreasing(ret.highs)
        /\ StrictlyIncreasing(ret.lows)

\* an EMA-derivative call that reports a high and a later low
C2_Witness ==
    /\ pc = "ema"
    /\ Len(ret.highs) >= 1
    /\ Len(ret.lows) >= 1

(***************************************************************************)
(* Breakout validator (divergence.py 628-732)                              *)
(*                                                                         *)
(* A threshold is a fraction [num, den] with den > 0.                      *)
(* A table is [Close, High, Low], three sequences of one length; its       *)
(* labels are the positions 0..len-1.                                      *)
(***************************************************************************)
TableLen(df) == Len(df.Close)

\* divergence_idx in df.index
InIndex(df, idx) == idx \in 0..(TableLen(df) - 1)

\* df[price_col].iloc[-1]
LastClose(df) == At(df.Close, TableLen(df) - 1)

\* (a slip that would turn the comparison round)
GeUp_Flipped(a, p, t) == a * t.den <= p * (t.den + t.num)

\* (a slip that would use 1 + threshold for the bearish target)
LeDown_Plus(a, p, t) == a * t.den <= p * (t.den + t.num)

\* (a slip that would count a close at the failed level as failed)
LtUp_OrEqual(a, p, t) == a * t.den <= p * (t.den + t.num)

\* a >= p * (1 + t), a <= p * (1 + t), ... with t = num/den
GeUp(a, p, t) == a * t.den >= p * (t.den + t.num)
LtUp(a, p, t) == a * t.den < p * (t.den + t.num)
LeDown(a, p, t) == a * t.den <= p * (t.den - t.num)
GtDown(a, p, t) == a * t.den > p * (t.den - t.num)

check_breakout_occurred(df, divergence_idx, divergence_type, threshold) ==
    IF ~InIndex(df, divergence_idx) THEN FALSE
    ELSE LET divergence_price == At(df.Close, divergence_idx)
             current_price == LastClose(df)
         IN  IF divergence_type = "bullish"
             THEN GeUp(current_price, divergence_price, threshold)
             ELSE IF divergence_type = "bearish"
             THEN LeDown(current_price, divergence_price, threshold)
             ELSE FALSE

\* df.iloc[a:b] of one column, for 0 <= a: the positions a .. min(b, len) - 1
ILocSlice(col, a, b) ==
    LET stop == IF b < Len(col) THEN b ELSE Len(col)
    IN  IF stop <= a THEN <<>> ELSE SubSeq(col, a + 1, stop)

\* Series.max() / Series.min() of a non-empty column
SeqMax(s) == CHOOSE m \in Elems(s) : \A x \in Elems(s) : x <= m
SeqMin(s) == CHOOSE m \in Elems(s) : \A x \in Elems(s) : x >= m

\* first row of recent_data: df.iloc[div_loc : div_loc + lookback_window + 1]
RecentStart(div_loc) == div_loc

check_failed_breakout(df, divergence_idx, divergence_type, lookback_window, attempt_threshold, reversal_threshold) ==
    IF ~InIndex(df, divergence_idx) THEN FALSE
    ELSE LET div_loc == divergence_idx
         IN  IF div_loc >= TableLen(df) - 1 THEN FALSE
             ELSE LET recent_high == ILocSlice(df.High, RecentStart(div_loc),
                                               div_loc + lookback_window + 1)
                      recent_low == ILocSlice(df.Low, RecentStart(div_loc),
                                              div_loc + lookback_window + 1)
                      divergence_price == At(df.Close, divergence_idx)
                      current_close == LastClose(df)
                  IN  IF Len(recent_high) < 2 THEN FALSE
                      ELSE IF divergence_type = "bullish"
                      THEN /\ GeUp(SeqMax(recent_high), divergence_price,
                                   attempt_threshold)
                           /\ LtUp(current_close, divergence_price,
                                   reversal_threshold)
                      ELSE IF divergence_type = "bearish"
                      THEN /\ LeDown(SeqMin(recent_low), divergence_price,
                                     attempt_threshold)
                           /\ GtDown(current_close, divergence_price,
                                     reversal_threshold)
                      ELSE FALSE

BrkMaxLen == 3
BrkMaxLookback == 2
BrkPrices == {1, 2}
BrkThresholds == {[num |-> 0, den |-> 1], [num |-> 1, den |-> 2],
                  [num |-> 1, den |-> 1]}
BrkTypes == {"bullish", "bearish", "other"}

\* bars with Low <= Close <= High
BrkBars == {b \in [Close : BrkPrices, High : BrkPrices, Low : BrkPrices] :
              b.Low <= b.Close /\ b.Close <= b.High}

BrkTables ==
    {[Close |-> [k \in 1..Len(bs) |-> bs[k].Close],
      High  |-> [k \in 1..Len(bs) |-> bs[k].High],
      Low   |-> [k \in 1..Len(bs) |-> bs[k].Low]] :
        bs \in SeqsUpTo(BrkBars, BrkMaxLen)}

\* divergence_idx ranges over the labels of the table and one label past it
InitBreakout ==
    /\ pc = "start"
    /\ ret = NotCalled
    /\ \/ call \in [fn : {"check_breakout_occurred"}, df : BrkTables,
                     divergence_idx : 0..BrkMaxLen,
                     divergence_type : BrkTypes,
                     threshold : BrkThresholds]
       \/ call \in [fn : {"check_failed_breakout"}, df : BrkTables,
                     divergence_idx : 0..BrkMaxLen,
                     divergence_type : BrkTypes,
                     lookback_window : 0..BrkMaxLookback,
                     attempt_threshold : BrkThresholds,
                     reversal_threshold : BrkThresholds]

CallBreakoutOccurred ==
    /\ pc = "start"
    /\ call.fn = "check_breakout_occurred"
    /\ pc' = "occurred"
    /\ ret' = check_breakout_occurred(call.df, call.divergence_idx,
                                      call.divergence_type, call.threshold)
    /\ UNCHANGED call

CallFailedBreakout ==
    /\ pc = "start"
    /\ call.fn = "check_failed_breakout"
    /\ pc' = "failed"
    /\ ret' = check_failed_breakout(call.df, call.divergence_idx,
                                    call.divergence_type, call.lookback_window,
                                    call.attempt_threshold,
                                    call.reversal_threshold)
    /\ UNCHANGED call

NextBreakout == CallBreakoutOccurred \/ CallFailedBreakout

SpecBreakout == InitBreakout /\ [][NextBreakout]_vars

\* C7: with the divergence position in the series, check_breakout_occurred is
\* true for bullish iff last close >= divergence price * (1 + threshold), for
\* bearish iff last close <= divergence price * (1 - threshold), false for any
\* other type; the answer is a function of the divergence price, the last
\* close, the type and the threshold alone.
C7_AlreadyResolved ==
    (pc = "occurred" /\ InIndex(call.df, call.divergence_idx)) =>
        LET p == call.df.Close[call.divergence_idx + 1]
            c == call.df.Close[Len(call.df.Close)]
            t == call.threshold
        IN  /\ call.divergence_type = "bullish" =>
                  (ret <=> c * t.den >= p * t.den + p * t.num)
            /\ call.divergence_type = "bearish" =>
                  (ret <=> c * t.den <= p * t.den - p * t.num)
            /\ call.divergence_type \notin {"bullish", "bearish"} => ret = FALSE

\* a bullish divergence in the middle of the table that the last close resolved
C7_Witness ==
    /\ pc = "occurred"
    /\ call.divergence_type = "bullish"
    /\ call.divergence_idx = 0
    /\ TableLen(call.df) = 3
    /\ call.threshold.num > 0
    /\ ret = TRUE

\* the bars after the divergence point, at most lookback_window of them
BarsAfter(df, idx, lookback_window) ==
    {k \in (idx + 1)..(idx + lookback_window) : k <= TableLen(df) - 1}

\* C8 (as claimed): check_failed_breakout is true for bullish iff some bar among
\* the at most lookback_window bars after the divergence point has
\* High >= divergence price * (1 + attempt_threshold) and the last close is
\* < divergence price * (1 + reversal_threshold); bearish is the mirror with Low;
\* the attempted extreme comes only from bars after the divergence point.
C8_FailedAttemptAfterOnly ==
    (pc = "failed" /\ InIndex(call.df, call.divergence_idx)) =>
        LET df == call.df
            p == At(df.Close, call.divergence_idx)
            c == LastClose(df)
            after == BarsAfter(df, call.divergence_idx, call.lookback_window)
        IN  /\ call.divergence_type = "bullish" =>
                  (ret <=> /\ \E k \in after :
                                 GeUp(At(df.High, k), p, call.attempt_threshold)
                           /\ LtUp(c, p, call.reversal_threshold))
            /\ call.divergence_type = "bearish" =>
                  (ret <=> /\ \E k \in after :
                                 LeDown(At(df.Low, k), p, call.attempt_threshold)
                           /\ GtDown(c, p, call.reversal_threshold))

\* C9 (as claimed): both breakout predicates return false when the reference
\* position is not in the series and when it is the last bar of the series,
\* for every divergence type and every threshold.
C9_FalseWithoutDataAfter ==
    (/\ pc \in {"occurred", "failed"}
     /\ \/ ~InIndex(call.df, call.divergence_idx)
        \/ call.divergence_idx = TableLen(call.df) - 1) => ret = FALSE

(***************************************************************************)
(* Exact fractions                                                         *)
(***************************************************************************)
Frac(n, d) == [num |-> n, den |-> d]
FracAdd(a, b) == Frac(a.num * b.den + b.num * a.den, a.den * b.den)
FracGe(a, b) == a.num * b.den >= b.num * a.den

(***************************************************************************)
(* Tables with labels: [base, step, Close, RSI, High, Low]; the row at     *)
(* position i has label base + step * i, step 1 for an increasing index    *)
(* and -1 for a decreasing one.                                            *)
(***************************************************************************)
NRows(df) == Len(df.Close)

\* idx in df.index
HasLabel(df, idx) ==
    idx # None /\ (idx - df.base) * df.step \in 0..(NRows(df) - 1)

\* pos[idx] / pos_map[idx]
PosOf(df, idx) == (idx - df.base) * df.step

\* df.at[idx, col] / df.loc[idx, col]
Loc(df, col, idx) == At(df[col], PosOf(df, idx))

\* the last n elements of a column
TailCol(col, n) == IF n = 0 THEN <<>> ELSE SubSeq(col, Len(col) - n + 1, Len(col))

\* df.tail(lookback) for 0 <= lookback <= len(df)
TailRows(df, lookback) ==
    [base  |-> df.base + df.step * (NRows(df) - lookback),
     step  |-> df.step,
     Close |-> TailCol(df.Close, lookback),
     RSI   |-> TailCol(df.RSI, lookback),
     High  |-> TailCol(df.High, lookback),
     Low   |-> TailCol(df.Low, lookback)]

\* positions of a pivot list as labels of the table
Labels(df, positions) ==
    [k \in 1..Len(positions) |-> df.base + df.step * positions[k]]

\* truth value of a label-or-None in `if r1_idx and r2_idx`
Truthy(x) == x # None

(***************************************************************************)
(* _compute_atr (divergence.py 19-35)                                      *)
(***************************************************************************)
Max2(a, b) == IF a >= b THEN a ELSE b

\* the row-wise max of high - low, |high - close.shift(1)|, |low - close.shift(1)|
\* (the two NaN entries of the first row are skipped by max)
TrueRange(df, i) ==
    LET hl == At(df.High, i) - At(df.Low, i)
    IN  IF i = 0 THEN hl
        ELSE Max2(hl, Max2(Abs(At(df.High, i) - At(df.Close, i - 1)),
                           Abs(At(df.Low, i) - At(df.Close, i - 1))))

RECURSIVE SumTR(_, _, _)
SumTR(df, a, b) == IF a > b THEN 0 ELSE TrueRange(df, a) + SumTR(df, a + 1, b)

\* tr.rolling(period, min_periods=1).mean() at position i
compute_atr(df, period, i) ==
    LET first == Max2(0, i - period + 1)
    IN  Frac(SumTR(df, first, i), i - first + 1)

(***************************************************************************)
(* find_three_point_sequences (divergence.py 38-211)                       *)
(*                                                                         *)
(* q is the record of the keyword arguments: kind, max_bar_gap,            *)
(* sequence_tolerance_pct, min_magnitude_atr_mult (fractions), atr_period, *)
(* require_strict_order.                                                   *)
(***************************************************************************)

\* [i for i in idx if i in pos]
RECURSIVE InPos(_, _)
InPos(df, idx) ==
    IF idx = <<>> THEN <<>>
    ELSE (IF HasLabel(df, Head(idx)) THEN <<Head(idx)>> ELSE <<>>)
         \o InPos(df, Tail(idx))

\* (a slip that would filter the caller's list in place)
ListAfterFilter_InPlace(df, idx) == InPos(df, idx)

\* the caller's pivot list after lines 83-84: the comprehension builds a new
\* list and binds the local name to it, the list passed in is left as it was
ListAfterFilter(df, idx) == idx

\* the caller's table after line 340: tail() and copy() build a new table
TableAfterTail(df, lookback) == df

\* (a slip that would drop the bound on the gap)
RECURSIVE NearestRsiScan_NoBound(_, _, _, _, _, _, _)
NearestRsiScan_NoBound(df, rsi_idx, tpos, max_bar_gap, k, best, best_gap) ==
    IF k > Len(rsi_idx) THEN best
    ELSE LET gap == Abs(PosOf(df, rsi_idx[k]) - tpos)
         IN  IF best = None \/ gap < best_gap
             THEN NearestRsiScan_NoBound(df, rsi_idx, tpos, max_bar_gap, k + 1,
                                         rsi_idx[k], gap)
             ELSE NearestRsiScan_NoBound(df, rsi_idx, tpos, max_bar_gap, k + 1,
                                         best, best_gap)

\* the loop of nearest_rsi over rsi_idx
RECURSIVE NearestRsiScan(_, _, _, _, _, _, _)
NearestRsiScan(df, rsi_idx, tpos, max_bar_gap, k, best, best_gap) ==
    IF k > Len(rsi_idx) THEN best
    ELSE LET gap == Abs(PosOf(df, rsi_idx[k]) - tpos)
         IN  IF gap <= max_bar_gap /\ gap < best_gap
             THEN NearestRsiScan(df, rsi_idx, tpos, max_bar_gap, k + 1,
                                 rsi_idx[k], gap)
             ELSE NearestRsiScan(df, rsi_idx, tpos, max_bar_gap, k + 1,
                                 best, best_gap)

nearest_rsi(df, rsi_idx, target_idx, max_bar_gap) ==
    NearestRsiScan(df, rsi_idx, PosOf(df, target_idx), max_bar_gap, 1,
                   None, max_bar_gap + 1)

\* a <= b * (1 + t) and a >= b * (1 - t) for a fraction t
LeTolUp(a, b, t) == a * t.den <= b * (t.den + t.num)
GeTolDown(a, b, t) == a * t.den >= b * (t.den - t.num)
\* (a slip that would inflate the previous low instead of deflating it)
LeTolDown_Inflated(a, b, t) == a * t.den <= b * (t.den + t.num)

LeTolDown(a, b, t) == a * t.den <= b * (t.den - t.num)
GeTolUp(a, b, t) == a * t.den >= b * (t.den + t.num)

\* ok_price of a triple
SeqOkPrice(q, p1, p2, p3) ==
    IF q.kind = "low"
    THEN IF q.require_strict_order
         THEN p2 < p1 /\ p3 < p2
         ELSE /\ LeTolUp(p2, p1, q.sequence_tolerance_pct)
              /\ LeTolUp(p3, p2, q.sequence_tolerance_pct)
    ELSE IF q.require_strict_order
         THEN p2 > p1 /\ p3 > p2
         ELSE /\ GeTolDown(p2, p1, q.sequence_tolerance_pct)
              /\ GeTolDown(p3, p2, q.sequence_tolerance_pct)

\* ok_rsi of a triple; 0.5 points is 1 half point
SeqOkRsi(q, r1, r2, r3) ==
    IF q.kind = "low"
    THEN IF q.require_strict_order
         THEN r2 > r1 /\ r3 > r2
         ELSE r2 >= r1 - 1 /\ r3 >= r2 - 1
    ELSE IF q.require_strict_order
         THEN r2 < r1 /\ r3 < r2
         ELSE r2 <= r1 + 1 /\ r3 <= r2 + 1

\* not isnan(atr) and atr > 0 and span >= min_magnitude_atr_mult * atr
LegOk(span, atr, mult) ==
    atr.num > 0 /\ span * mult.den * atr.den >= mult.num * atr.num

\* (a slip that would put the floor at a quarter of the ATR, whatever
\* min_magnitude_atr_mult is)
MagOk_QuarterAtr(q, span12, span23, atr_p1, atr_p2) ==
    \/ LegOk(span12, atr_p1, Frac(1, 4))
    \/ LegOk(span23, atr_p2, Frac(1, 4))

\* mag_ok: at least one leg reaches the floor
MagOk(q, span12, span23, atr_p1, atr_p2) ==
    \/ LegOk(span12, atr_p1, q.min_magnitude_atr_mult)
    \/ LegOk(span23, atr_p2, q.min_magnitude_atr_mult)

\* (a slip that would leave the leg spans undivided by the ATR)
SeqScore_RawSpan(q, span12, span23, atr_p2, r1, r2, r3) ==
    LET rsi_delta == IF q.kind = "low" THEN (r2 - r1) + (r3 - r2)
                     ELSE (r1 - r2) + (r2 - r3)
    IN  FracAdd(Frac(span12 + span23, 1), Frac(rsi_delta, 20))

\* (a slip that would leave the RSI contribution out of the score)
SeqScore_PriceOnly(q, span12, span23, atr_p2, r1, r2, r3) ==
    IF atr_p2.num > 0
    THEN Frac((span12 + span23) * atr_p2.den, atr_p2.num * 2)
    ELSE Frac(0, 1)

\* the conviction score: (span12 + span23) / (atr_p2 * 2.0) when atr_p2 > 0,
\* plus the RSI deltas / 10.0 (half points / 20)
SeqScore(q, span12, span23, atr_p2, r1, r2, r3) ==
    LET price_term == IF atr_p2.num > 0
                      THEN Frac((span12 + span23) * atr_p2.den, atr_p2.num * 2)
                      ELSE Frac(0, 1)
        rsi_delta == IF q.kind = "low" THEN (r2 - r1) + (r3 - r2)
                     ELSE (r1 - r2) + (r2 - r3)
    IN  FracAdd(price_term, Frac(rsi_delta, 20))

\* one iteration of the loop over the windows of three consecutive price
\* pivots: <<>> when the window is skipped, else the appended candidate
SeqCandidate(df, price_idx, rsi_idx, q, i) ==
    LET p1_idx == price_idx[i + 1]
        p2_idx == price_idx[i + 2]
        p3_idx == price_idx[i + 3]
        r1_idx == nearest_rsi(df, rsi_idx, p1_idx, q.max_bar_gap)
        r2_idx == nearest_rsi(df, rsi_idx, p2_idx, q.max_bar_gap)
        r3_idx == nearest_rsi(df, rsi_idx, p3_idx, q.max_bar_gap)
    IN  IF Abs(PosOf(df, p3_idx) - PosOf(df, p1_idx)) < 2 THEN <<>>
        ELSE IF ~(Truthy(r1_idx) /\ Truthy(r2_idx) /\ Truthy(r3_idx)) THEN <<>>
        ELSE LET p1 == Loc(df, "Close", p1_idx)
                 p2 == Loc(df, "Close", p2_idx)
                 p3 == Loc(df, "Close", p3_idx)
                 r1 == Loc(df, "RSI", r1_idx)
                 r2 == Loc(df, "RSI", r2_idx)
                 r3 == Loc(df, "RSI", r3_idx)
                 atr_p1 == compute_atr(df, q.atr_period, PosOf(df, p1_idx))
                 atr_p2 == compute_atr(df, q.atr_period, PosOf(df, p2_idx))
                 atr_p3 == compute_atr(df, q.atr_period, PosOf(df, p3_idx))
                 span12 == Abs(p1 - p2)
                 span23 == Abs(p2 - p3)
             IN  IF ~(SeqOkPrice(q, p1, p2, p3) /\ SeqOkRsi(q, r1, r2, r3))
                 THEN <<>>
                 ELSE IF ~MagOk(q, span12, span23, atr_p1, atr_p2) THEN <<>>
                 ELSE << [kind       |-> q.kind,
                          price_idx  |-> <<p1_idx, p2_idx, p3_idx>>,
                          rsi_idx    |-> <<r1_idx, r2_idx, r3_idx>>,
                          price_vals |-> <<p1, p2, p3>>,
                          rsi_vals   |-> <<r1, r2, r3>>,
                          score      |-> SeqScore(q, span12, span23, atr_p2,
                                                  r1, r2, r3),
                          meta       |-> [span12 |-> span12, span23 |-> span23,
                                          atr_p1 |-> atr_p1, atr_p2 |-> atr_p2,
                                          atr_p3 |-> atr_p3]] >>

\* (a slip that would look at the most recent window only)
SeqLoop_LastOnly(df, price_idx, rsi_idx, q, i) ==
    IF Len(price_idx) < 3 THEN <<>>
    ELSE SeqCandidate(df, price_idx, rsi_idx, q, Len(price_idx) - 3)

\* the loop: for i in range(len(price_idx) - 2)
RECURSIVE SeqLoop(_, _, _, _, _)
SeqLoop(df, price_idx, rsi_idx, q, i) ==
    IF i >= Len(price_idx) - 2 THEN <<>>
    ELSE SeqCandidate(df, price_idx, rsi_idx, q, i)
         \o SeqLoop(df, price_idx, rsi_idx, q, i + 1)

\* candidates.sort(key=score, reverse=True): stable, so a candidate goes
\* behind every candidate already placed whose score is >= its own
RECURSIVE InsertByScore(_, _)
InsertByScore(sorted, c) ==
    IF sorted = <<>> THEN <<c>>
    ELSE IF FracGe(Head(sorted).score, c.score)
         THEN <<Head(sorted)>> \o InsertByScore(Tail(sorted), c)
         ELSE <<c>> \o sorted

RECURSIVE SortByScore(_, _)
SortByScore(cands, sorted) ==
    IF cands = <<>> THEN sorted
    ELSE SortByScore(Tail(cands), InsertByScore(sorted, Head(cands)))

\* (a slip that would give up only when both lists are short)
TooFewPivots_Both(price_idx, rsi_idx) == Len(price_idx) < 3 /\ Len(rsi_idx) < 3

\* if len(price_idx) < 3 or len(rsi_idx) < 3: return []
TooFewPivots(price_idx, rsi_idx) == Len(price_idx) < 3 \/ Len(rsi_idx) < 3

find_three_point_sequences(df, price_idx_in, rsi_idx_in, q) ==
    LET price_idx == InPos(df, price_idx_in)
        rsi_idx == InPos(df, rsi_idx_in)
    IN  IF TooFewPivots(price_idx, rsi_idx) THEN <<>>
        ELSE SortByScore(SeqLoop(df, price_idx, rsi_idx, q, 0), <<>>)

(***************************************************************************)
(* detect_divergence (divergence.py 255-625)                               *)
(*                                                                         *)
(* a is the record of the keyword arguments. The details strings are       *)
(* modelled by their leading format: "" (empty), "2-Point" for             *)
(* "Price ..(LL/HH).." , "3-Point" and "3-Point (score)".                  *)
(***************************************************************************)
BULLISH_RSI_TOLERANCE == 1
BEARISH_RSI_TOLERANCE == 1

\* the result record as initialised at 324-334
NegativeResult ==
    [bullish |-> FALSE, bearish |-> FALSE,
     bullish_details |-> "", bearish_details |-> "",
     last_signal |-> "none",
     bullish_indices |-> <<>>, bearish_indices |-> <<>>,
     bullish_score |-> Frac(0, 1), bearish_score |-> Frac(0, 1)]

\* the four pivot index lists (343-365), as labels of recent_df
DetectPivots(recent_df, a) ==
    IF a.pivot_method = "ema-deriv"
    THEN LET pp == ema_pivots_of(recent_df.Close, a.ema_price_span)
             rp == ema_pivots_of(recent_df.RSI, a.ema_rsi_span)
         IN  [price_high_idx |-> Labels(recent_df, pp.highs),
              price_low_idx  |-> Labels(recent_df, pp.lows),
              rsi_high_idx   |-> Labels(recent_df, rp.highs),
              rsi_low_idx    |-> Labels(recent_df, rp.lows)]
    ELSE LET pp == find_swing_points(recent_df.Close, a.window)
             rp == find_swing_points(recent_df.RSI, a.window)
         IN  [price_high_idx |-> Labels(recent_df, pp.highs),
              price_low_idx  |-> Labels(recent_df, pp.lows),
              rsi_high_idx   |-> Labels(recent_df, rp.highs),
              rsi_low_idx    |-> Labels(recent_df, rp.lows)]

\* max_bar_gap_fallback = window * index_proximity_factor
MaxBarGapFallback(a) == a.window * a.index_proximity_factor

\* the list `viable` of nearest_by_bar, as the set of its (gap, label) pairs
Viable(recent_df, target_idx, candidates, bound) ==
    {<<Abs(PosOf(recent_df, c) - PosOf(recent_df, target_idx)), c>> :
        c \in {x \in Elems(candidates) :
                 /\ HasLabel(recent_df, x)
                 /\ Abs(PosOf(recent_df, x) - PosOf(recent_df, target_idx))
                       <= bound}}

\* min() of a set of (gap, label) tuples: smallest gap, then smallest label
MinPair(S) ==
    CHOOSE m \in S : \A x \in S :
        m[1] < x[1] \/ (m[1] = x[1] /\ m[2] <= x[2])

nearest_by_bar(recent_df, target_idx, candidates, bound) ==
    IF ~HasLabel(recent_df, target_idx) THEN None
    ELSE LET viable == Viable(recent_df, target_idx, candidates, bound)
         IN  IF viable = {} THEN None ELSE MinPair(viable)[2]

\* s[-k] of a list
FromEnd(s, k) == s[Len(s) - k + 1]

\* the 3-point attempt of one track (461-507, 541-592): Nothing, or the
\* record of what it writes into the result
ThreePointStandard(recent_df, price_idx, rsi_idx, kind, a) ==
    LET bound == MaxBarGapFallback(a)
        p1_idx == FromEnd(price_idx, 3)
        p2_idx == FromEnd(price_idx, 2)
        p3_idx == FromEnd(price_idx, 1)
        r1_idx == nearest_by_bar(recent_df, p1_idx, rsi_idx, bound)
        r2_idx == nearest_by_bar(recent_df, p2_idx, rsi_idx, bound)
        r3_idx == nearest_by_bar(recent_df, p3_idx, rsi_idx, bound)
    IN  IF ~(Truthy(r1_idx) /\ Truthy(r2_idx) /\ Truthy(r3_idx)) THEN Nothing
        ELSE LET p1 == Loc(recent_df, "Close", p1_idx)
                 p2 == Loc(recent_df, "Close", p2_idx)
                 p3 == Loc(recent_df, "Close", p3_idx)
                 r1 == Loc(recent_df, "RSI", r1_idx)
                 r2 == Loc(recent_df, "RSI", r2_idx)
                 r3 == Loc(recent_df, "RSI", r3_idx)
                 tol == a.sequence_tolerance_pct
                 ok == IF kind = "low"
                       THEN /\ LeTolDown(p2, p1, tol) /\ LeTolDown(p3, p2, tol)
                            /\ r2 - r1 >= Max2(BULLISH_RSI_TOLERANCE,
                                               a.rsi_sequence_tolerance)
                            /\ r3 - r2 >= Max2(BULLISH_RSI_TOLERANCE,
                                               a.rsi_sequence_tolerance)
                       ELSE /\ GeTolUp(p2, p1, tol) /\ GeTolUp(p3, p2, tol)
                            /\ r1 - r2 >= Max2(BEARISH_RSI_TOLERANCE,
                                               a.rsi_sequence_tolerance)
                            /\ r2 - r3 >= Max2(BEARISH_RSI_TOLERANCE,
                                               a.rsi_sequence_tolerance)
             IN  IF ok
                 THEN << [details |-> "3-Point",
                          indices |-> <<p1_idx, p2_idx, p3_idx,
                                        r1_idx, r2_idx, r3_idx>>] >>
                 ELSE Nothing

\* (a slip that would ask for an RSI step above the tolerance, not at it)
TwoPoint_StrictRsi(recent_df, price_idx, rsi_idx, kind, a) ==
    LET bound == MaxBarGapFallback(a)
        p1_idx == FromEnd(price_idx, 2)
        p2_idx == FromEnd(price_idx, 1)
        r1_idx == nearest_by_bar(recent_df, p1_idx, rsi_idx, bound)
        r2_idx == nearest_by_bar(recent_df, p2_idx, rsi_idx, bound)
    IN  IF ~(Truthy(r1_idx) /\ Truthy(r2_idx)) THEN Nothing
        ELSE LET p1 == Loc(recent_df, "Close", p1_idx)
                 p2 == Loc(recent_df, "Close", p2_idx)
                 r1 == Loc(recent_df, "RSI", r1_idx)
                 r2 == Loc(recent_df, "RSI", r2_idx)
                 ok == IF kind = "low"
                       THEN p2 < p1 /\ r2 - r1 > BULLISH_RSI_TOLERANCE
                       ELSE p2 > p1 /\ r1 - r2 > BEARISH_RSI_TOLERANCE
             IN  IF ok
                 THEN << [details |-> "2-Point",
                          indices |-> <<p1_idx, p2_idx, r1_idx, r2_idx>>] >>
                 ELSE Nothing

\* (a slip that would test the price step only)
TwoPoint_PriceOnly(recent_df, price_idx, rsi_idx, kind, a) ==
    LET bound == MaxBarGapFallback(a)
        p1_idx == FromEnd(price_idx, 2)
        p2_idx == FromEnd(price_idx, 1)
        r1_idx == nearest_by_bar(recent_df, p1_idx, rsi_idx, bound)
        r2_idx == nearest_by_bar(recent_df, p2_idx, rsi_idx, bound)
    IN  IF ~(Truthy(r1_idx) /\ Truthy(r2_idx)) THEN Nothing
        ELSE LET p1 == Loc(recent_df, "Close", p1_idx)
                 p2 == Loc(recent_df, "Close", p2_idx)
                 ok == IF kind = "low" THEN p2 < p1 ELSE p2 > p1
             IN  IF ok
                 THEN << [details |-> "2-Point",
                          indices |-> <<p1_idx, p2_idx, r1_idx, r2_idx>>] >>
                 ELSE Nothing

\* the 2-point attempt of one track (510-533, 595-623)
TwoPoint(recent_df, price_idx, rsi_idx, kind, a) ==
    LET bound == MaxBarGapFallback(a)
        p1_idx == FromEnd(price_idx, 2)
        p2_idx == FromEnd(price_idx, 1)
        r1_idx == nearest_by_bar(recent_df, p1_idx, rsi_idx, bound)
        r2_idx == nearest_by_bar(recent_df, p2_idx, rsi_idx, bound)
    IN  IF ~(Truthy(r1_idx) /\ Truthy(r2_idx)) THEN Nothing
        ELSE LET p1 == Loc(recent_df, "Close", p1_idx)
                 p2 == Loc(recent_df, "Close", p2_idx)
                 r1 == Loc(recent_df, "RSI", r1_idx)
                 r2 == Loc(recent_df, "RSI", r2_idx)
                 ok == IF kind = "low"
                       THEN p2 < p1 /\ r2 - r1 >= BULLISH_RSI_TOLERANCE
                       ELSE p2 > p1 /\ r1 - r2 >= BEARISH_RSI_TOLERANCE
             IN  IF ok
                 THEN << [details |-> "2-Point",
                          indices |-> <<p1_idx, p2_idx, r1_idx, r2_idx>>] >>
                 ELSE Nothing

\* (a slip that would examine a track as soon as it has two pivots)
TrackGuard_TwoEnough(price_idx, rsi_idx, a) ==
    Len(price_idx) >= 2 /\ Len(rsi_idx) >= 2

\* the guard of a track of the standard path (459, 536-539)
TrackGuard(price_idx, rsi_idx, a) ==
    Len(price_idx) >= a.min_swing_points /\ Len(rsi_idx) >= a.min_swing_points

\* (a slip that would leave out the 2-point fallback after a 3-point attempt)
StandardTrack_NoFallback(recent_df, price_idx, rsi_idx, kind, a) ==
    IF ~TrackGuard(price_idx, rsi_idx, a) THEN Nothing
    ELSE IF a.min_swing_points = 3 /\ Len(price_idx) >= 3 /\ Len(rsi_idx) >= 3
    THEN ThreePointStandard(recent_df, price_idx, rsi_idx, kind, a)
    ELSE IF Len(price_idx) >= 2 /\ Len(rsi_idx) >= 2
    THEN TwoPoint(recent_df, price_idx, rsi_idx, kind, a)
    ELSE Nothing

\* one track of the standard path (459-533 for lows, 536-623 for highs)
StandardTrack(recent_df, price_idx, rsi_idx, kind, a) ==
    IF ~TrackGuard(price_idx, rsi_idx, a) THEN Nothing
    ELSE LET three == IF a.min_swing_points = 3 /\ Len(price_idx) >= 3
                         /\ Len(rsi_idx) >= 3
                      THEN ThreePointStandard(recent_df, price_idx, rsi_idx,
                                              kind, a)
                      ELSE Nothing
         IN  IF three # Nothing THEN three
             ELSE IF Len(price_idx) >= 2 /\ Len(rsi_idx) >= 2
             THEN TwoPoint(recent_df, price_idx, rsi_idx, kind, a)
             ELSE Nothing

\* the keyword arguments detect_divergence passes to the scorer (388-414)
ScorerArgs(a, kind) ==
    [kind |-> kind,
     max_bar_gap |-> a.max_bar_gap,
     sequence_tolerance_pct |-> a.sequence_tolerance_pct,
     min_magnitude_atr_mult |-> a.min_magnitude_atr_mult,
     atr_period |-> a.atr_period,
     require_strict_order |-> FALSE]

\* (a slip that would take the best candidate whatever its score)
BestScored_NoGate(cands, a) ==
    IF cands # <<>> THEN <<cands[1]>> ELSE Nothing

\* the best candidate of a direction if its score reaches the minimum (417, 435)
BestScored(cands, a) ==
    IF cands # <<>> /\ FracGe(cands[1].score, a.min_sequence_score)
    THEN <<cands[1]>> ELSE Nothing

\* result["..._indices"] = None
NoIndices == <<>>

\* (a slip that would forget the indices of a scored bearish candidate)
ScoredResult_NoBearIndices(bull, bear) ==
    [bullish |-> bull # Nothing,
     bearish |-> bear # Nothing,
     bullish_details |-> IF bull # Nothing THEN "3-Point (score)" ELSE "",
     bearish_details |-> IF bear # Nothing THEN "3-Point (score)" ELSE "",
     last_signal |-> IF bull # Nothing THEN "bullish"
                     ELSE IF bear # Nothing THEN "bearish" ELSE "none",
     bullish_indices |-> IF bull # Nothing
                         THEN bull[1].price_idx \o bull[1].rsi_idx
                         ELSE NoIndices,
     bearish_indices |-> NoIndices,
     bullish_score |-> IF bull # Nothing THEN bull[1].score ELSE Frac(0, 1),
     bearish_score |-> IF bear # Nothing THEN bear[1].score ELSE Frac(0, 1)]

\* the result after the scoring block (416-451)
ScoredResult(bull, bear) ==
    [bullish |-> bull # Nothing,
     bearish |-> bear # Nothing,
     bullish_details |-> IF bull # Nothing THEN "3-Point (score)" ELSE "",
     bearish_details |-> IF bear # Nothing THEN "3-Point (score)" ELSE "",
     last_signal |-> IF bull # Nothing THEN "bullish"
                     ELSE IF bear # Nothing THEN "bearish" ELSE "none",
     bullish_indices |-> IF bull # Nothing
                         THEN bull[1].price_idx \o bull[1].rsi_idx
                         ELSE NoIndices,
     bearish_indices |-> IF bear # Nothing
                         THEN bear[1].price_idx \o bear[1].rsi_idx
                         ELSE NoIndices,
     bullish_score |-> IF bull # Nothing THEN bull[1].score ELSE Frac(0, 1),
     bearish_score |-> IF bear # Nothing THEN bear[1].score ELSE Frac(0, 1)]

\* (a slip that would look at the highs only when the lows gave nothing)
StandardResult_Exclusive(bull, bear) ==
    [bullish |-> bull # Nothing,
     bearish |-> bull = Nothing /\ bear # Nothing,
     bullish_details |-> IF bull # Nothing THEN bull[1].details ELSE "",
     bearish_details |-> IF bull = Nothing /\ bear # Nothing
                         THEN bear[1].details ELSE "",
     last_signal |-> IF bull # Nothing THEN "bullish"
                     ELSE IF bear # Nothing THEN "bearish" ELSE "none",
     bullish_indices |-> IF bull # Nothing THEN bull[1].indices ELSE NoIndices,
     bearish_indices |-> IF bull = Nothing /\ bear # Nothing
                         THEN bear[1].indices ELSE NoIndices,
     bullish_score |-> Frac(0, 1), bearish_score |-> Frac(0, 1)]

\* (a slip that would let the bearish track overwrite the label)
StandardResult_LastWins(bull, bear) ==
    [bullish |-> bull # Nothing,
     bearish |-> bear # Nothing,
     bullish_details |-> IF bull # Nothing THEN bull[1].details ELSE "",
     bearish_details |-> IF bear # Nothing THEN bear[1].details ELSE "",
     last_signal |-> IF bear # Nothing THEN "bearish"
                     ELSE IF bull # Nothing THEN "bullish" ELSE "none",
     bullish_indices |-> IF bull # Nothing THEN bull[1].indices ELSE NoIndices,
     bearish_indices |-> IF bear # Nothing THEN bear[1].indices ELSE NoIndices,
     bullish_score |-> Frac(0, 1), bearish_score |-> Frac(0, 1)]

\* the result after the standard path (457-625)
StandardResult(bull, bear) ==
    [bullish |-> bull # Nothing,
     bearish |-> bear # Nothing,
     bullish_details |-> IF bull # Nothing THEN bull[1].details ELSE "",
     bearish_details |-> IF bear # Nothing THEN bear[1].details ELSE "",
     last_signal |-> IF bull # Nothing THEN "bullish"
                     ELSE IF bear # Nothing THEN "bearish" ELSE "none",
     bullish_indices |-> IF bull # Nothing THEN bull[1].indices ELSE NoIndices,
     bearish_indices |-> IF bear # Nothing THEN bear[1].indices ELSE NoIndices,
     bullish_score |-> Frac(0, 1), bearish_score |-> Frac(0, 1)]

\* whether the scoring block is entered (386)
ScoringMode(a) == a.use_sequence_scoring /\ a.min_swing_points = 3

\* (a slip that would return early only when both directions were found)
ScoredReturns_Both(bull, bear) == bull # Nothing /\ bear # Nothing

\* whether the scoring block returns its result (454-455)
ScoredReturns(bull, bear) == bull # Nothing \/ bear # Nothing

\* the body of detect_divergence after the pivot lists are known (367-625)
DetectFromPivots(recent_df, pv, a) ==
    LET sbull == IF ScoringMode(a)
                 THEN BestScored(find_three_point_sequences(recent_df,
                          pv.price_low_idx, pv.rsi_low_idx,
                          ScorerArgs(a, "low")), a)
                 ELSE Nothing
        sbear == IF ScoringMode(a)
                 THEN BestScored(find_three_point_sequences(recent_df,
                          pv.price_high_idx, pv.rsi_high_idx,
                          ScorerArgs(a, "high")), a)
                 ELSE Nothing
    IN  IF ScoringMode(a) /\ ScoredReturns(sbull, sbear)
        THEN ScoredResult(sbull, sbear)
        ELSE StandardResult(
                 StandardTrack(recent_df, pv.price_low_idx,
                               pv.rsi_low_idx, "low", a),
                 StandardTrack(recent_df, pv.price_high_idx,
                               pv.rsi_high_idx, "high", a))

detect_divergence(df, a) ==
    IF NRows(df) < a.lookback THEN NegativeResult
    ELSE LET recent_df == TailRows(df, a.lookback)
         IN  DetectFromPivots(recent_df, DetectPivots(recent_df, a), a)

(***************************************************************************)
(* Calls of detect_divergence and of find_three_point_sequences            *)
(*                                                                         *)
(* The tables are zigzags: the bars at DivSwingBars each on one of         *)
(* DivLevels (below or above the flat level), the other bars on the flat   *)
(* level; or entirely flat. High and Low are Close +/- DivWick.            *)
(***************************************************************************)
DivLen == 7
DivWick == 1
DivFlat == 3
DivLevels == {1, 2, 4, 5}
DivSwingBars == {1, 3, 5}

ZigZag(swings) ==
    [k \in 1..DivLen |-> IF k - 1 \in DivSwingBars THEN swings[k - 1]
                         ELSE DivFlat]

DivColumns ==
    {ZigZag(sw) : sw \in [DivSwingBars -> DivLevels]}
    \cup {[k \in 1..DivLen |-> DivFlat]}

DivTables ==
    {[base  |-> 0,
      step  |-> 1,
      Close |-> c,
      RSI   |-> r,
      High  |-> [k \in 1..DivLen |-> c[k] + DivWick],
      Low   |-> [k \in 1..DivLen |-> c[k] - DivWick]] :
        c \in DivColumns, r \in DivColumns}

DivTolerances == {Frac(0, 1), Frac(1, 2)}
DivMinScores == {Frac(0, 1), Frac(1, 1)}

\* defaults of detect_divergence (259-275)
DefaultProximityFactor == 2
DefaultEmaSpan == 5
DefaultMaxBarGap == 10
DefaultAtrPeriod == 14
DefaultMinMagnitude == Frac(1, 2)

\* (window, lookback): a narrow window on the whole table
NormalShape == <<1, DivLen>>

\* a window wider than half the table, a lookback longer than the table, a
\* lookback shorter than the table
OtherShapes ==
    {<<DivLen \div 2 + 1, DivLen>>, <<1, DivLen + 1>>, <<1, DivLen - 2>>}

\* the windowed strategy: every combination of point count, tolerance and
\* scoring on the normal shape, the other shapes with scoring off and no
\* tolerance; the EMA-derivative strategy: no tolerance, the normal shape and
\* the wide window
DetectArgs ==
    {a \in [window : {sh[1] : sh \in OtherShapes \cup {NormalShape}},
            lookback : {sh[2] : sh \in OtherShapes \cup {NormalShape}},
            min_swing_points : {2, 3},
            index_proximity_factor : {DefaultProximityFactor},
            sequence_tolerance_pct : DivTolerances,
            rsi_sequence_tolerance : {0},
            pivot_method : {"swing", "ema-deriv"},
            ema_price_span : {DefaultEmaSpan},
            ema_rsi_span : {DefaultEmaSpan},
            use_sequence_scoring : BOOLEAN,
            min_sequence_score : DivMinScores,
            max_bar_gap : {DefaultMaxBarGap},
            min_magnitude_atr_mult : {DefaultMinMagnitude},
            atr_period : {DefaultAtrPeriod}] :
        /\ <<a.window, a.lookback>> \in OtherShapes \cup {NormalShape}
        /\ (a.use_sequence_scoring /\ a.min_swing_points = 3)
              \/ a.min_sequence_score = Frac(1, 1)
        /\ a.min_swing_points = 3 \/ a.sequence_tolerance_pct = Frac(0, 1)
        /\ <<a.window, a.lookback>> \in OtherShapes =>
              /\ ~a.use_sequence_scoring
              /\ a.sequence_tolerance_pct = Frac(0, 1)
        /\ a.pivot_method = "ema-deriv" =>
              /\ a.sequence_tolerance_pct = Frac(0, 1)
              /\ a.lookback = DivLen
              /\ a.min_swing_points = 3 \/ ~a.use_sequence_scoring}

\* pivot lists handed to the scorer, <<price_idx, rsi_idx>>: the swing bars
\* for both; RSI pivots off the swing bars; too few RSI pivots; too few
\* price pivots; a price pivot whose label is not in the table
SeqPivotLists ==
    {<< <<1, 3, 5>>, <<1, 3, 5>> >>,
     << <<1, 3, 5>>, <<1, 2, 3>> >>,
     << <<1, 3, 5>>, <<3, 5>> >>,
     << <<3, 5>>, <<1, 3, 5>> >>,
     << <<1, 3, DivLen + 2>>, <<1, 3, 5>> >>}

\* every gap, tolerance and order for the swing bars; every gap for the RSI
\* pivots off the swing bars; the widest gap for the other lists
SeqArgs(pl) ==
    {q \in [kind : {"low", "high"},
            max_bar_gap : {1, 2},
            sequence_tolerance_pct : DivTolerances,
            min_magnitude_atr_mult : {DefaultMinMagnitude},
            atr_period : {DefaultAtrPeriod},
            require_strict_order : BOOLEAN] :
        /\ q.require_strict_order => q.sequence_tolerance_pct = Frac(0, 1)
        /\ pl[1] # pl[2] =>
              /\ ~q.require_strict_order
              /\ q.sequence_tolerance_pct = Frac(0, 1)
        /\ (pl[1] # pl[2] /\ pl[2] # <<1, 2, 3>>) => q.max_bar_gap = 2}

InitDivergence ==
    /\ pc = "start"
    /\ ret = NotCalled
    /\ \/ call \in [fn : {"detect_divergence"}, df : DivTables, a : DetectArgs]
       \/ \E pl \in SeqPivotLists :
             call \in [fn : {"find_three_point_sequences"}, df : DivTables,
                       price_idx : {pl[1]}, rsi_idx : {pl[2]},
                       q : SeqArgs(pl)]

CallDetectDivergence ==
    /\ pc = "start"
    /\ call.fn = "detect_divergence"
    /\ pc' = "detected"
    /\ ret' = detect_divergence(call.df, call.a)
    /\ call' = [call EXCEPT !.df = TableAfterTail(call.df, call.a.lookback)]

CallFindThreePointSequences ==
    /\ pc = "start"
    /\ call.fn = "find_three_point_sequences"
    /\ pc' = "sequences"
    /\ ret' = find_three_point_sequences(call.df, call.price_idx,
                                         call.rsi_idx, call.q)
    /\ call' = [call EXCEPT
                   !.price_idx = ListAfterFilter(call.df, call.price_idx),
                   !.rsi_idx = ListAfterFilter(call.df, call.rsi_idx)]

NextDivergence == CallDetectDivergence \/ CallFindThreePointSequences

SpecDivergence == InitDivergence /\ [][NextDivergence]_vars

\* the table a call of detect_divergence scans, and its pivots
RecentOf(c) == TailRows(c.df, c.a.lookback)
PivotsOf(c) == DetectPivots(RecentOf(c), c.a)

\* price and RSI values at the labels of an indices tuple (p.., r..)
PriceAt(c, ix, j) == Loc(c.df, "Close", ix[j])
RsiAt(c, ix, j) == Loc(c.df, "RSI", ix[Len(ix) \div 2 + j])

\* every (price pivot, matched RSI pivot) pair of an indices tuple is at most
\* bound bars apart
PairsWithin(ix, bound) ==
    \A j \in 1..(Len(ix) \div 2) : Abs(ix[j] - ix[Len(ix) \div 2 + j]) <= bound

\* C3: in every candidate of the standard path of detect_divergence each
\* (price pivot, matched indicator pivot) pair is at most
\* window * index_proximity_factor bars apart, and in every candidate returned
\* by find_three_point_sequences each pair is at most max_bar_gap bars apart.
C3_AlignmentBound ==
    /\ pc = "detected" =>
          (/\ ret.bullish_details \in {"2-Point", "3-Point"} =>
                 PairsWithin(ret.bullish_indices,
                             call.a.window * call.a.index_proximity_factor)
           /\ ret.bearish_details \in {"2-Point", "3-Point"} =>
                 PairsWithin(ret.bearish_indices,
                             call.a.window * call.a.index_proximity_factor))
    /\ pc = "sequences" =>
          \A k \in 1..Len(ret) :
              PairsWithin(ret[k].price_idx \o ret[k].rsi_idx, call.q.max_bar_gap)

\* the scorer matched a price pivot to an RSI pivot exactly max_bar_gap away,
\* with a farther RSI pivot in the list
C3_Witness ==
    /\ pc = "sequences"
    /\ call.q.max_bar_gap = 2
    /\ call.rsi_idx = <<1, 2, 3>>
    /\ Len(ret) = 1
    /\ ret[1].price_idx[3] = 5
    /\ ret[1].rsi_idx[3] = 3

\* the monotonicity law on one indices tuple: price non-increasing within the
\* tolerance and RSI rising by at least 0.5 at every step (lows), or the mirror
MonotoneLows(c, ix) ==
    \A j \in 1..(Len(ix) \div 2 - 1) :
        /\ LeTolUp(PriceAt(c, ix, j + 1), PriceAt(c, ix, j),
                   c.a.sequence_tolerance_pct)
        /\ RsiAt(c, ix, j + 1) - RsiAt(c, ix, j) >= 1

MonotoneHighs(c, ix) ==
    \A j \in 1..(Len(ix) \div 2 - 1) :
        /\ GeTolDown(PriceAt(c, ix, j + 1), PriceAt(c, ix, j),
                     c.a.sequence_tolerance_pct)
        /\ RsiAt(c, ix, j) - RsiAt(c, ix, j + 1) >= 1

\* C4: every candidate detect_divergence emits as bullish (2-point, standard
\* 3-point or scored 3-point) has price pivot values non-increasing within the
\* tolerance and indicator pivot values that increase by at least 0.5 points at
\* every step; every bearish candidate satisfies the mirror condition.
C4_MonotonicityLaw ==
    pc = "detected" =>
        /\ ret.bullish => MonotoneLows(call, ret.bullish_indices)
        /\ ret.bearish => MonotoneHighs(call, ret.bearish_indices)

\* the 3-point attempt and the 2-point check of a track of a call
ThreeOf(c, kind) ==
    LET pv == PivotsOf(c)
    IN  IF kind = "low"
        THEN ThreePointStandard(RecentOf(c), pv.price_low_idx, pv.rsi_low_idx,
                                "low", c.a)
        ELSE ThreePointStandard(RecentOf(c), pv.price_high_idx,
                                pv.rsi_high_idx, "high", c.a)

TwoOf(c, kind) ==
    LET pv == PivotsOf(c)
    IN  IF kind = "low"
        THEN TwoPoint(RecentOf(c), pv.price_low_idx, pv.rsi_low_idx, "low", c.a)
        ELSE TwoPoint(RecentOf(c), pv.price_high_idx, pv.rsi_high_idx,
                      "high", c.a)

PricePivots(c, kind) ==
    IF kind = "low" THEN PivotsOf(c).price_low_idx ELSE PivotsOf(c).price_high_idx

RsiPivots(c, kind) ==
    IF kind = "low" THEN PivotsOf(c).rsi_low_idx ELSE PivotsOf(c).rsi_high_idx

Found(r, kind) == IF kind = "low" THEN r.bullish ELSE r.bearish
IndicesOf(r, kind) ==
    IF kind = "low" THEN r.bullish_indices ELSE r.bearish_indices
DetailsOf(r, kind) ==
    IF kind = "low" THEN r.bullish_details ELSE r.bearish_details

\* a call with min_swing_points = 3, scoring off, that scanned the table
ThreePointCall ==
    /\ pc = "detected"
    /\ call.a.min_swing_points = 3
    /\ ~call.a.use_sequence_scoring
    /\ NRows(call.df) >= call.a.lookback

\* C5 (as claimed): with min_swing_points = 3 and scoring off, whenever the
\* three most recent price pivots of a track fail alignment or the tolerance
\* checks, the track reports the 2-point candidate (4 indices) if the two most
\* recent price pivots pass the 2-point check, and nothing only if they do not.
C5_FallbackWheneverThreeFail ==
    ThreePointCall =>
        \A kind \in {"low", "high"} :
            (Len(PricePivots(call, kind)) >= 3
             /\ ThreeOf(call, kind) = Nothing) =>
                /\ Found(ret, kind) <=> TwoOf(call, kind) # Nothing
                /\ Found(ret, kind) => Len(IndicesOf(ret, kind)) = 4

\* C5 (amended): the same, for a track with at least 3 price pivots and at
\* least 3 indicator pivots; a track with fewer than 3 of either reports
\* nothing.
C5_FallbackWithThreePivots ==
    ThreePointCall =>
        \A kind \in {"low", "high"} :
            /\ (Len(PricePivots(call, kind)) >= 3
                /\ Len(RsiPivots(call, kind)) >= 3
                /\ ThreeOf(call, kind) = Nothing) =>
                   /\ Found(ret, kind) <=> TwoOf(call, kind) # Nothing
                   /\ Found(ret, kind) =>
                         /\ Len(IndicesOf(ret, kind)) = 4
                         /\ IndicesOf(ret, kind) = TwoOf(call, kind)[1].indices
            /\ (Len(PricePivots(call, kind)) < 3
                \/ Len(RsiPivots(call, kind)) < 3) => ~Found(ret, kind)

\* the three most recent price lows failed the 3-point check and the two most
\* recent were reported as a 2-point candidate
C5_Witness ==
    /\ ThreePointCall
    /\ Len(PricePivots(call, "low")) >= 3
    /\ Len(RsiPivots(call, "low")) >= 3
    /\ ThreeOf(call, "low") = Nothing
    /\ ret.bullish
    /\ Len(ret.bullish_indices) = 4

\* the best scored candidate of a direction that reaches the minimum score
ScoredOf(c, kind) ==
    BestScored(find_three_point_sequences(RecentOf(c), PricePivots(c, kind),
                                          RsiPivots(c, kind),
                                          ScorerArgs(c.a, kind)), c.a)

\* a call in score-gated mode that scanned the table
ScoreGatedCall ==
    /\ pc = "detected"
    /\ call.a.use_sequence_scoring
    /\ call.a.min_swing_points = 3
    /\ NRows(call.df) >= call.a.lookback

\* C6 (as claimed): with use_sequence_scoring and min_swing_points = 3, every
\* reported candidate is a 3-point candidate with three price and three
\* indicator positions; a 2-point fallback candidate is never reported.
C6_ScoreGatedThreePointOnly ==
    ScoreGatedCall =>
        \A kind \in {"low", "high"} :
            Found(ret, kind) => Len(IndicesOf(ret, kind)) = 6

\* C6 (amended): in that mode, when the scorer has a candidate reaching
\* min_sequence_score in at least one direction, every reported candidate is
\* a scored 3-point candidate (three price and three indicator positions);
\* when it has none, the standard path decides and may report a 2-point
\* candidate.
C6_ScoredOrStandard ==
    ScoreGatedCall =>
        IF ScoredOf(call, "low") # Nothing \/ ScoredOf(call, "high") # Nothing
        THEN \A kind \in {"low", "high"} :
                 /\ Found(ret, kind) <=> ScoredOf(call, kind) # Nothing
                 /\ Found(ret, kind) =>
                       /\ Len(IndicesOf(ret, kind)) = 6
                       /\ DetailsOf(ret, kind) = "3-Point (score)"
        ELSE \A kind \in {"low", "high"} :
                 Found(ret, kind) =>
                     DetailsOf(ret, kind) \in {"2-Point", "3-Point"}

\* score-gated mode reported a scored bullish candidate
C6_Witness ==
    /\ ScoreGatedCall
    /\ ret.bullish
    /\ ret.bullish_details = "3-Point (score)"
    /\ Len(ret.bullish_indices) = 6

\* C9 (amended): both breakout predicates return false when the reference
\* position is not in the series; at the last bar check_failed_breakout returns
\* false for every type and threshold, and check_breakout_occurred returns
\* false when the divergence price and the threshold are positive.
C9_FalseWithoutDataAfterPositive ==
    /\ (pc \in {"occurred", "failed"}
        /\ ~InIndex(call.df, call.divergence_idx)) => ret = FALSE
    /\ (pc = "failed" /\ call.divergence_idx = TableLen(call.df) - 1) =>
           ret = FALSE
    /\ (/\ pc = "occurred"
        /\ call.divergence_idx = TableLen(call.df) - 1
        /\ InIndex(call.df, call.divergence_idx)
        /\ At(call.df.Close, call.divergence_idx) > 0
        /\ call.threshold.num > 0) => ret = FALSE

\* check_breakout_occurred called on the last bar of a table with a positive
\* threshold
C9_Witness ==
    /\ pc = "occurred"
    /\ TableLen(call.df) = 2
    /\ call.divergence_idx = 1
    /\ call.divergence_type = "bullish"
    /\ call.threshold.num > 0
    /\ ret = FALSE

\* none of the four pivot lists of a call has a pivot
NoPivots(c) ==
    LET pv == PivotsOf(c)
    IN  /\ pv.price_high_idx = <<>> /\ pv.price_low_idx = <<>>
        /\ pv.rsi_high_idx = <<>> /\ pv.rsi_low_idx = <<>>

\* C10 (as claimed): detect_divergence returns the negative result when the
\* series has fewer bars than lookback, when the window is wider than half the
\* series, or when the series has no pivots; find_three_point_sequences
\* returns an empty list when fewer than 3 price pivots or fewer than 3
\* indicator pivots are supplied.
C10_NegativeOnInsufficientData ==
    /\ (/\ pc = "detected"
        /\ \/ NRows(call.df) < call.a.lookback
           \/ 2 * call.a.window > NRows(call.df)
           \/ NoPivots(call)) => ret = NegativeResult
    /\ (/\ pc = "sequences"
        /\ (Len(call.price_idx) < 3 \/ Len(call.rsi_idx) < 3)) => ret = <<>>

\* C10 (amended): the same, the wide-window case under the windowed ('swing')
\* pivot method only.
C10_NegativeOnInsufficientDataSwing ==
    /\ (/\ pc = "detected"
        /\ \/ NRows(call.df) < call.a.lookback
           \/ (call.a.pivot_method = "swing"
               /\ 2 * call.a.window > NRows(call.df))
           \/ NoPivots(call)) => ret = NegativeResult
    /\ (/\ pc = "sequences"
        /\ (Len(call.price_idx) < 3 \/ Len(call.rsi_idx) < 3)) => ret = <<>>

\* the scorer was handed three price pivots and two indicator pivots that
\* align with the last two
C10_Witness ==
    /\ pc = "sequences"
    /\ call.price_idx = <<1, 3, 5>>
    /\ call.rsi_idx = <<3, 5>>
    /\ ret = <<>>

\* a call with min_swing_points = 2 that scanned the table
TwoPointCall ==
    /\ pc = "detected"
    /\ call.a.min_swing_points = 2
    /\ NRows(call.df) >= call.a.lookback

\* the two most recent price pivots of a track, <<a, b>>, or <<>> if it has
\* fewer than two
LastTwo(c, kind) ==
    LET pp == PricePivots(c, kind)
    IN  IF Len(pp) >= 2 THEN <<pp[Len(pp) - 1], pp[Len(pp)]>> ELSE <<>>

\* pa < pb are both indicator pivots of the track, and price and indicator
\* diverge between them by at least 0.5 points
DivergingPair(c, kind, pa, pb) ==
    LET rp == RsiPivots(c, kind)
    IN  /\ pa < pb
        /\ pa \in Elems(rp) /\ pb \in Elems(rp)
        /\ IF kind = "low"
           THEN /\ Loc(c.df, "Close", pb) < Loc(c.df, "Close", pa)
                /\ Loc(c.df, "RSI", pb) - Loc(c.df, "RSI", pa) >= 1
           ELSE /\ Loc(c.df, "Close", pb) > Loc(c.df, "Close", pa)
                /\ Loc(c.df, "RSI", pa) - Loc(c.df, "RSI", pb) >= 1

\* C13: with min_swing_points = 2, when the two most recent price lows are at
\* a < b with indicator lows at the same positions, price[b] < price[a] and
\* indicator[b] - indicator[a] >= 0.5, the call reports bullish with indices
\* (a, b, a, b); the mirrored pattern on highs reports bearish with
\* (a, b, a, b).
C13_TwoPointDetection ==
    TwoPointCall =>
        \A kind \in {"low", "high"} :
            LET ab == LastTwo(call, kind)
            IN  (ab # <<>> /\ DivergingPair(call, kind, ab[1], ab[2])) =>
                    /\ Found(ret, kind)
                    /\ IndicesOf(ret, kind) = <<ab[1], ab[2], ab[1], ab[2]>>

\* a bullish pair whose indicator rises by exactly 0.5 points, on the tail of
\* a longer table
C13_Witness ==
    /\ TwoPointCall
    /\ call.a.lookback < NRows(call.df)
    /\ LastTwo(call, "low") = <<3, 5>>
    /\ DivergingPair(call, "low", 3, 5)
    /\ Loc(call.df, "RSI", 5) - Loc(call.df, "RSI", 3) = 1
    /\ ret.bullish_indices = <<3, 5, 3, 5>>

(***************************************************************************)
(* detect_divergence on a table that may lack the price or the indicator   *)
(* column, with any window >= 0 and any point count                        *)
(*                                                                         *)
(* columns is the set of the names among price_col, rsi_col that           *)
(* df.columns holds; the sequences of a missing column are never read.     *)
(* An exception that leaves the function is the record [raised |-> name].  *)
(***************************************************************************)
Raised(e) == [raised |-> e]

\* what ema_derivative_pivots returns when a column is missing (pivots.py
\* 54-61): four empty indexes
NoPivotLists ==
    [price_high_idx |-> <<>>, price_low_idx |-> <<>>,
     rsi_high_idx |-> <<>>, rsi_low_idx |-> <<>>]

\* price_col not in df.columns or rsi_col not in df.columns
ColumnMissing(columns) == ~({"Close", "RSI"} \subseteq columns)

\* detect_divergence(df, ...): the length guard (336), then the pivot lists
\* (343-365), where recent_df[price_col] raises KeyError for a missing column
\* under the windowed strategy, then the rest of the body
detect_divergence_on(df, columns, a) ==
    IF NRows(df) < a.lookback THEN NegativeResult
    ELSE LET recent_df == TailRows(df, a.lookback)
         IN  IF a.pivot_method = "ema-deriv"
             THEN IF ColumnMissing(columns)
                  THEN DetectFromPivots(recent_df, NoPivotLists, a)
                  ELSE DetectFromPivots(recent_df,
                                        DetectPivots(recent_df, a), a)
             ELSE IF ColumnMissing(columns) THEN Raised("KeyError")
                  ELSE DetectFromPivots(recent_df,
                                        DetectPivots(recent_df, a), a)

\* two indicator columns: lows rising 0.5 at the last step, lows rising 0.5
\* at each step
EdgeRsiColumns ==
    {ZigZag(1 :> 1 @@ 3 :> 1 @@ 5 :> 2), ZigZag(1 :> 1 @@ 3 :> 2 @@ 5 :> 4)}

EdgeTables == {t \in DivTables : t.RSI \in EdgeRsiColumns}

\* windows 0 and 1, point counts 1 to 4, both strategies, a lookback that
\* the table reaches and one it does not
EdgeArgs ==
    [window : {0, 1},
     lookback : {DivLen, DivLen + 1},
     min_swing_points : 1..4,
     index_proximity_factor : {DefaultProximityFactor},
     sequence_tolerance_pct : {Frac(0, 1)},
     rsi_sequence_tolerance : {0},
     pivot_method : {"swing", "ema-deriv"},
     ema_price_span : {DefaultEmaSpan},
     ema_rsi_span : {DefaultEmaSpan},
     use_sequence_scoring : BOOLEAN,
     min_sequence_score : {Frac(0, 1)},
     max_bar_gap : {DefaultMaxBarGap},
     min_magnitude_atr_mult : {DefaultMinMagnitude},
     atr_period : {DefaultAtrPeriod}]

InitEdge ==
    /\ pc = "start"
    /\ ret = NotCalled
    /\ call \in [fn : {"detect_divergence"}, df : EdgeTables,
                 columns : SUBSET {"Close", "RSI"}, a : EdgeArgs]

CallDetectDivergenceOn ==
    /\ pc = "start"
    /\ pc' = "detected_on"
    /\ ret' = detect_divergence_on(call.df, call.columns, call.a)
    /\ UNCHANGED call

NextEdge == CallDetectDivergenceOn

SpecEdge == InitEdge /\ [][NextEdge]_vars

\* C11: when the price or indicator column is missing, detect_divergence
\* returns the negative result (bullish = False, bearish = False) rather than
\* raising, for every series length and for both pivot strategies.
C11_MissingColumnNegative ==
    (pc = "detected_on" /\ ColumnMissing(call.columns)) =>
        /\ "raised" \notin DOMAIN ret
        /\ ret = NegativeResult

\* C12: a call with a non-positive window or with min_swing_points outside
\* {2, 3} produces a hard error and never a detection result.
C12_MalformedFailsFast ==
    (/\ pc = "detected_on"
     /\ call.a.window <= 0 \/ call.a.min_swing_points \notin {2, 3}) =>
        "raised" \in DOMAIN ret

(***************************************************************************)
(* Calls of the scorer and of score-gated detect_divergence on tables with *)
(* four swing bars, so that a pivot list has two windows of three          *)
(***************************************************************************)
ScoLen == 9
ScoLevels == {1, 2, 4}
ScoSwingBars == {1, 3, 5, 7}

ScoZigZag(swings) ==
    [k \in 1..ScoLen |-> IF k - 1 \in ScoSwingBars THEN swings[k - 1]
                         ELSE DivFlat]

ScoColumns == {ScoZigZag(sw) : sw \in [ScoSwingBars -> ScoLevels]}

ScoTables ==
    {[base  |-> 0,
      step  |-> 1,
      Close |-> c,
      RSI   |-> r,
      High  |-> [k \in 1..ScoLen |-> c[k] + DivWick],
      Low   |-> [k \in 1..ScoLen |-> c[k] - DivWick]] :
        c \in ScoColumns, r \in ScoColumns}

\* minimum scores: none, and one that some candidates of these tables reach
ScoMinScores == {Frac(0, 1), Frac(1, 4)}

\* calls with the windowed strategy on the whole table: score-gated with
\* either minimum score, and the standard path with 3 and with 2 points
ScoDetectArgs ==
    {a \in [window : {1},
            lookback : {ScoLen},
            min_swing_points : {2, 3},
            index_proximity_factor : {DefaultProximityFactor},
            sequence_tolerance_pct : {Frac(0, 1)},
            rsi_sequence_tolerance : {0},
            pivot_method : {"swing"},
            ema_price_span : {DefaultEmaSpan},
            ema_rsi_span : {DefaultEmaSpan},
            use_sequence_scoring : BOOLEAN,
            min_sequence_score : ScoMinScores,
            max_bar_gap : {DefaultMaxBarGap},
            min_magnitude_atr_mult : {DefaultMinMagnitude},
            atr_period : {DefaultAtrPeriod}] :
        /\ ~a.use_sequence_scoring => a.min_sequence_score = Frac(0, 1)
        /\ a.min_swing_points = 2 => ~a.use_sequence_scoring}

\* the four swing bars as price pivots; the same bars, or three of them, as
\* RSI pivots
ScoPivotLists ==
    {<< <<1, 3, 5, 7>>, <<1, 3, 5, 7>> >>,
     << <<1, 3, 5, 7>>, <<1, 3, 7>> >>}

ScoSeqArgs(pl) ==
    {q \in [kind : {"low", "high"},
            max_bar_gap : {1, 2},
            sequence_tolerance_pct : DivTolerances,
            min_magnitude_atr_mult : {DefaultMinMagnitude},
            atr_period : {DefaultAtrPeriod},
            require_strict_order : BOOLEAN] :
        /\ q.require_strict_order => q.sequence_tolerance_pct = Frac(0, 1)
        /\ pl[1] = pl[2] => q.max_bar_gap = 2
        /\ pl[1] # pl[2] =>
              /\ ~q.require_strict_order
              /\ q.sequence_tolerance_pct = Frac(0, 1)}

\* tables without wicks (High = Low = Close) whose price may stay where it
\* was, so that the true range of a bar can be zero
PlateauLen == 5
PlateauLevels == {1, 2, 3}
PlateauPivots == <<1, 3, 4>>

PlateauTables ==
    {[base  |-> 0,
      step  |-> 1,
      Close |-> c,
      RSI   |-> [k \in 1..PlateauLen |->
                    IF k - 1 \in Elems(PlateauPivots) THEN r[k - 1] ELSE DivFlat],
      High  |-> c,
      Low   |-> c] :
        c \in [1..PlateauLen -> PlateauLevels],
        r \in [Elems(PlateauPivots) -> PlateauLevels]}

\* an ATR period of one bar: the ATR at a bar is its true range
PlateauSeqArgs ==
    [kind : {"low", "high"},
     max_bar_gap : {1},
     sequence_tolerance_pct : {Frac(0, 1)},
     min_magnitude_atr_mult : {DefaultMinMagnitude},
     atr_period : {1},
     require_strict_order : {FALSE}]

InitScoring ==
    /\ pc = "start"
    /\ ret = NotCalled
    /\ \/ call \in [fn : {"detect_divergence"}, df : ScoTables,
                    a : ScoDetectArgs]
       \/ call \in [fn : {"find_three_point_sequences"}, df : PlateauTables,
                    price_idx : {PlateauPivots}, rsi_idx : {PlateauPivots},
                    q : PlateauSeqArgs]
       \/ \E pl \in ScoPivotLists :
             call \in [fn : {"find_three_point_sequences"}, df : ScoTables,
                       price_idx : {pl[1]}, rsi_idx : {pl[2]},
                       q : ScoSeqArgs(pl)]

NextScoring == CallDetectDivergence \/ CallFindThreePointSequences

SpecScoring == InitScoring /\ [][NextScoring]_vars

\* window i of a call of the scorer: the price pivots i, i+1, i+2 (0-based)
WindowOf(c, i) == <<c.price_idx[i + 1], c.price_idx[i + 2], c.price_idx[i + 3]>>

\* window i passes alignment (each price pivot has an RSI pivot within
\* max_bar_gap bars), monotonicity and the magnitude floor
WindowPasses(c, i) ==
    LET w == WindowOf(c, i)
        r == [j \in 1..3 |-> nearest_rsi(c.df, c.rsi_idx, w[j], c.q.max_bar_gap)]
    IN  /\ \A j \in 1..3 :
              \E x \in Elems(c.rsi_idx) : Abs(x - w[j]) <= c.q.max_bar_gap
        /\ \A j \in 1..3 : r[j] # None
        /\ SeqOkPrice(c.q, Loc(c.df, "Close", w[1]), Loc(c.df, "Close", w[2]),
                      Loc(c.df, "Close", w[3]))
        /\ SeqOkRsi(c.q, Loc(c.df, "RSI", r[1]), Loc(c.df, "RSI", r[2]),
                    Loc(c.df, "RSI", r[3]))
        /\ MagOk(c.q, Abs(Loc(c.df, "Close", w[1]) - Loc(c.df, "Close", w[2])),
                 Abs(Loc(c.df, "Close", w[2]) - Loc(c.df, "Close", w[3])),
                 compute_atr(c.df, c.q.atr_period, w[1]),
                 compute_atr(c.df, c.q.atr_period, w[2]))

PassingWindows(c) ==
    {i \in 0..(Len(c.price_idx) - 3) : WindowPasses(c, i)}

\* C14: find_three_point_sequences returns one entry for each window of three
\* consecutive price pivots, over all such windows, that passes alignment,
\* monotonicity and the magnitude floor, and the list is ordered by
\* non-increasing score.
C14_AllWindowsBestFirst ==
    pc = "sequences" =>
        /\ \A i \in 0..(Len(call.price_idx) - 3) :
              WindowPasses(call, i) <=>
                  \E k \in 1..Len(ret) : ret[k].price_idx = WindowOf(call, i)
        /\ Len(ret) = Cardinality(PassingWindows(call))
        /\ \A k \in 1..(Len(ret) - 1) : FracGe(ret[k].score, ret[k + 1].score)

\* both windows pass and the later one, with the higher score, comes first
C14_Witness ==
    /\ pc = "sequences"
    /\ Len(ret) = 2
    /\ ret[1].price_idx = <<3, 5, 7>>
    /\ ret[2].price_idx = <<1, 3, 5>>
    /\ ~FracGe(ret[2].score, ret[1].score)

\* the table with Close, High and Low multiplied by k
ScaledPrices(df, k) ==
    [base  |-> df.base,
     step  |-> df.step,
     Close |-> [j \in 1..Len(df.Close) |-> k * df.Close[j]],
     RSI   |-> df.RSI,
     High  |-> [j \in 1..Len(df.High) |-> k * df.High[j]],
     Low   |-> [j \in 1..Len(df.Low) |-> k * df.Low[j]]]

ScaleMax == 3

\* C15: multiplying Close, High and Low by a positive constant leaves the
\* triples find_three_point_sequences returns, their order and their scores
\* unchanged.
C15_ScaleInvariant ==
    pc = "sequences" =>
        \A k \in 2..ScaleMax :
            LET scaled == find_three_point_sequences(
                              ScaledPrices(call.df, k), call.price_idx,
                              call.rsi_idx, call.q)
            IN  /\ Len(scaled) = Len(ret)
                /\ \A j \in 1..Len(ret) :
                      /\ scaled[j].price_idx = ret[j].price_idx
                      /\ scaled[j].rsi_idx = ret[j].rsi_idx
                      /\ FracGe(scaled[j].score, ret[j].score)
                      /\ FracGe(ret[j].score, scaled[j].score)

\* two bearish triples with different positive scores are returned
C15_Witness ==
    /\ pc = "sequences"
    /\ call.q.kind = "high"
    /\ Len(ret) = 2
    /\ ret[2].score.num > 0
    /\ ~FracGe(ret[2].score, ret[1].score)

\* C18: in every result of detect_divergence last_signal is 'bullish' if a
\* bullish candidate is reported, otherwise 'bearish' if a bearish candidate
\* is reported, otherwise 'none'.
C18_LastSignal ==
    pc = "detected" =>
        ret.last_signal = IF ret.bullish THEN "bullish"
                          ELSE IF ret.bearish THEN "bearish" ELSE "none"

\* both directions are reported by one call, and the label is 'bullish'
C18_Witness ==
    /\ pc = "detected"
    /\ ret.bullish
    /\ ret.bearish
    /\ ret.last_signal = "bullish"

\* the scorer's list for a direction of a call of detect_divergence
CandidatesOf(c, kind) ==
    find_three_point_sequences(RecentOf(c), PricePivots(c, kind),
                               RsiPivots(c, kind), ScorerArgs(c.a, kind))

ScoreOf(r, kind) == IF kind = "low" THEN r.bullish_score ELSE r.bearish_score

SameScore(x, y) == FracGe(x, y) /\ FracGe(y, x)

\* the reported candidate of a direction is the first of the scorer's list,
\* no candidate of the list scores higher, the reported score is its score and
\* reaches min_sequence_score
ReportsBestScored(c, r, kind) ==
    LET cands == CandidatesOf(c, kind)
    IN  /\ cands # <<>>
        /\ IndicesOf(r, kind) = cands[1].price_idx \o cands[1].rsi_idx
        /\ SameScore(ScoreOf(r, kind), cands[1].score)
        /\ \A k \in 1..Len(cands) : FracGe(cands[1].score, cands[k].score)
        /\ FracGe(ScoreOf(r, kind), c.a.min_sequence_score)

\* the scorer's best candidate of a direction reaches min_sequence_score
Qualifies(c, kind) ==
    LET cands == CandidatesOf(c, kind)
    IN  cands # <<>> /\ FracGe(cands[1].score, c.a.min_sequence_score)

OutcomeOf(r, kind) == <<Found(r, kind), IndicesOf(r, kind), DetailsOf(r, kind)>>

Other(kind) == IF kind = "low" THEN "high" ELSE "low"

\* the pivot lists of a call with the lists of one direction emptied
WithoutPivots(pv, kind) ==
    IF kind = "low"
    THEN [pv EXCEPT !.price_low_idx = <<>>, !.rsi_low_idx = <<>>]
    ELSE [pv EXCEPT !.price_high_idx = <<>>, !.rsi_high_idx = <<>>]

\* what the call reports for a direction when the pivots of the other
\* direction are taken away
OutcomeAlone(c, kind) ==
    OutcomeOf(DetectFromPivots(RecentOf(c), WithoutPivots(PivotsOf(c), Other(kind)), c.a), kind)

\* a call of detect_divergence that scanned the table
ScannedCall ==
    /\ pc = "detected"
    /\ NRows(call.df) >= call.a.lookback

\* the other direction has a scored candidate that makes the call return from
\* the scoring block (454-455), and this direction has none
Preempted(c, kind) ==
    /\ ScoringMode(c.a)
    /\ Qualifies(c, Other(kind))
    /\ ~Qualifies(c, kind)

\* C17 (as claimed): in every mode the bearish outcome of detect_divergence
\* (flag, indices, details) is determined by the high pivots alone and the
\* bullish outcome by the low pivots alone: the outcome of a direction is what
\* the call reports for it when the pivots of the other direction are absent.
C17_TracksIndependent ==
    ScannedCall =>
        \A kind \in {"low", "high"} :
            OutcomeOf(ret, kind) = OutcomeAlone(call, kind)

\* C17 (amended): the same, except in score-gated mode when the other
\* direction has a scored candidate reaching min_sequence_score and this
\* direction has none: then this direction reports nothing.
C17_TracksIndependentUnlessPreempted ==
    ScannedCall =>
        \A kind \in {"low", "high"} :
            IF Preempted(call, kind)
            THEN OutcomeOf(ret, kind) = <<FALSE, NoIndices, "">>
            ELSE OutcomeOf(ret, kind) = OutcomeAlone(call, kind)

\* both directions are reported by one call
C17_Witness ==
    /\ ScannedCall
    /\ ret.bullish
    /\ ret.bearish
    /\ OutcomeAlone(call, "high") = OutcomeOf(ret, "high")
    /\ OutcomeAlone(call, "low") = OutcomeOf(ret, "low")

(***************************************************************************)
(* Calls of all six functions, with the caller's arguments kept in `call`  *)
(* across the call                                                         *)
(***************************************************************************)

\* the tables whose RSI column is their Close column
FrameTables == {t \in DivTables : t.RSI = t.Close}

InitFrame ==
    \/ InitPivots
    \/ InitBreakout
    \/ /\ pc = "start"
       /\ ret = NotCalled
       /\ \/ call \in [fn : {"detect_divergence"}, df : FrameTables,
                       a : DetectArgs]
          \/ \E pl \in SeqPivotLists :
                call \in [fn : {"find_three_point_sequences"}, df : FrameTables,
                          price_idx : {pl[1]}, rsi_idx : {pl[2]},
                          q : SeqArgs(pl)]

NextFrame ==
    \/ ("series" \in DOMAIN call /\ CallFindSwingPoints)
    \/ ("series" \in DOMAIN call /\ CallEmaPivots)
    \/ ("divergence_idx" \in DOMAIN call /\ CallBreakoutOccurred)
    \/ ("divergence_idx" \in DOMAIN call /\ CallFailedBreakout)
    \/ ("a" \in DOMAIN call /\ CallDetectDivergence)
    \/ ("q" \in DOMAIN call /\ CallFindThreePointSequences)

SpecFrame == InitFrame /\ [][NextFrame]_vars

InitNaN ==
    /\ pc = "start"
    /\ call \in [series : SeqsUpTo((0..PivMaxVal) \cup {NaN}, PivMaxLen),
                 window : 1..PivMaxWindow]
    /\ ret = NotCalled

NextNaN == CallFindSwingPoints

SpecNaN == InitNaN /\ [][NextNaN]_vars

\* some value of the window of position i, the value at i included, is NaN
NaNInWindow(series, window, i) ==
    \E j \in (i - window)..(i + window) : At(series, j) = NaN

\* C20: a pivot test in which the examined value or any value inside its
\* window is NaN never yields a pivot.
C20_NaNNeverPivot ==
    pc = "swing" =>
        \A i \in Elems(ret.highs) \cup Elems(ret.lows) :
            ~NaNInWindow(call.series, call.window, i)

(***************************************************************************)
(* Calls of the two aligners, nearest_by_bar (divergence.py 371-383) and   *)
(* nearest_rsi (89-99), on tables with an increasing and with a decreasing *)
(* index. The candidates are pivots of the table in row order, as          *)
(* dropna().index gives them (362-365).                                    *)
(***************************************************************************)
AlignLen == 5
AlignMaxGap == 2

\* the elements of a set of numbers in increasing order
RECURSIVE Ascending(_)
Ascending(S) ==
    IF S = {} THEN <<>>
    ELSE LET m == CHOOSE x \in S : \A y \in S : x <= y
         IN  <<m>> \o Ascending(S \ {m})

AlignTable(base, step) ==
    [base  |-> base,
     step  |-> step,
     Close |-> [k \in 1..AlignLen |-> DivFlat],
     RSI   |-> [k \in 1..AlignLen |-> DivFlat],
     High  |-> [k \in 1..AlignLen |-> DivFlat + DivWick],
     Low   |-> [k \in 1..AlignLen |-> DivFlat - DivWick]]

\* labels 0..AlignLen-1 from the first row on, and from the last row on
AlignTables == {AlignTable(0, 1), AlignTable(AlignLen - 1, -1)}

\* nearest_by_bar is also asked for a target that is not in the table
InitAlign ==
    /\ pc = "start"
    /\ ret = NotCalled
    /\ \E df \in AlignTables, S \in SUBSET (0..(AlignLen - 1)) :
          \/ call \in [fn : {"nearest_by_bar"}, df : {df},
                       target_idx : 0..AlignLen,
                       candidates : {Labels(df, Ascending(S))},
                       bound : 0..AlignMaxGap]
          \/ call \in [fn : {"nearest_rsi"}, df : {df},
                       target_idx : 0..(AlignLen - 1),
                       candidates : {Labels(df, Ascending(S))},
                       bound : 0..AlignMaxGap]

CallNearestByBar ==
    /\ pc = "start"
    /\ call.fn = "nearest_by_bar"
    /\ pc' = "aligned"
    /\ ret' = nearest_by_bar(call.df, call.target_idx, call.candidates,
                             call.bound)
    /\ UNCHANGED call

CallNearestRsi ==
    /\ pc = "start"
    /\ call.fn = "nearest_rsi"
    /\ pc' = "aligned"
    /\ ret' = nearest_rsi(call.df, call.candidates, call.target_idx,
                          call.bound)
    /\ UNCHANGED call

NextAlign == CallNearestByBar \/ CallNearestRsi

SpecAlign == InitAlign /\ [][NextAlign]_vars

\* bar-count distance of candidate k of a call to the target
GapOf(c, k) == Abs(PosOf(c.df, c.candidates[k]) - PosOf(c.df, c.target_idx))

\* the candidates within the bound, by their place in the input
WithinBound(c) == {k \in 1..Len(c.candidates) : GapOf(c, k) <= c.bound}

\* the first candidate, in input order, among those at the least distance
FirstNearest(c) ==
    LET k == CHOOSE k \in WithinBound(c) :
                 \A j \in WithinBound(c) :
                     GapOf(c, k) < GapOf(c, j) \/ (GapOf(c, k) = GapOf(c, j) /\ k <= j)
    IN  c.candidates[k]

DiffSign(c, t) == DerivSign(ema(c.series, c.span), c.span, t)

\* a series whose values are all the same
IsConstant(series) == \A j, k \in 1..Len(series) : series[j] = series[k]

\* C22 (as claimed): the EMA-derivative strategy reports position i as a
\* pivot-low exactly when d[i-1] < 0 and d[i] >= 0, and as a pivot-high exactly
\* when d[i-1] > 0 and d[i] <= 0; a constant series yields no pivots.
C22_SignFlipNonStrict ==
    pc = "ema" =>
        /\ \A i \in 0..(Len(call.series) - 1) :
              /\ i \in Elems(ret.lows) <=>
                    (i >= 2 /\ DiffSign(call, i - 1) < 0 /\ DiffSign(call, i) >= 0)
              /\ i \in Elems(ret.highs) <=>
                    (i >= 2 /\ DiffSign(call, i - 1) > 0 /\ DiffSign(call, i) <= 0)
        /\ IsConstant(call.series) => ret.lows = <<>> /\ ret.highs = <<>>

\* C22 (amended): position i is a pivot-low exactly when d[i-1] < 0 and
\* d[i] > 0, and a pivot-high exactly when d[i-1] > 0 and d[i] < 0; a
\* difference of zero is no turn, and a constant series yields no pivots.
C22_SignFlipStrict ==
    pc = "ema" =>
        /\ \A i \in 0..(Len(call.series) - 1) :
              /\ i \in Elems(ret.lows) <=>
                    (i >= 2 /\ DiffSign(call, i - 1) < 0 /\ DiffSign(call, i) > 0)
              /\ i \in Elems(ret.highs) <=>
                    (i >= 2 /\ DiffSign(call, i - 1) > 0 /\ DiffSign(call, i) < 0)
        /\ IsConstant(call.series) => ret.lows = <<>> /\ ret.highs = <<>>

\* the smoothed series falls, stays level for a bar (no pivot there), then
\* rises, and the low is reported where it rises
C22_Witness ==
    /\ pc = "ema"
    /\ \E i \in 2..(Len(call.series) - 2) :
          /\ DiffSign(call, i - 1) < 0
          /\ DiffSign(call, i) = 0
          /\ i \notin Elems(ret.lows)
    /\ ret.lows # <<>>

(***************************************************************************)
(* Calls of detect_divergence on the standard path (scoring off) with      *)
(* price and RSI steps on both sides of the tolerances                     *)
(***************************************************************************)
ClsFlat == 8

\* price lows that halve and price highs that grow by half; RSI lows and
\* highs 1.0 point apart (in half points: 2)
ClsPriceLevels == {1, 2, 4, 12, 18}
ClsRsiLevels == {3, 5, 7, 9, 11, 13}

ClsZigZag(swings) ==
    [k \in 1..DivLen |-> IF k - 1 \in DivSwingBars THEN swings[k - 1]
                         ELSE ClsFlat]

ClsTables ==
    {[base  |-> 0,
      step  |-> 1,
      Close |-> ClsZigZag(c),
      RSI   |-> ClsZigZag(r),
      High  |-> [k \in 1..DivLen |-> ClsZigZag(c)[k] + DivWick],
      Low   |-> [k \in 1..DivLen |-> ClsZigZag(c)[k] - DivWick]] :
        c \in [DivSwingBars -> ClsPriceLevels],
        r \in [DivSwingBars -> ClsRsiLevels]}

\* no tolerance, or a price tolerance of 50% with an extra RSI tolerance of
\* 1.0 point
ClsArgs ==
    {a \in [window : {1},
            lookback : {DivLen},
            min_swing_points : {2, 3},
            index_proximity_factor : {DefaultProximityFactor},
            sequence_tolerance_pct : DivTolerances,
            rsi_sequence_tolerance : {0, 2},
            pivot_method : {"swing"},
            ema_price_span : {DefaultEmaSpan},
            ema_rsi_span : {DefaultEmaSpan},
            use_sequence_scoring : {FALSE},
            min_sequence_score : {Frac(1, 1)},
            max_bar_gap : {DefaultMaxBarGap},
            min_magnitude_atr_mult : {DefaultMinMagnitude},
            atr_period : {DefaultAtrPeriod}] :
        a.sequence_tolerance_pct = Frac(0, 1) <=> a.rsi_sequence_tolerance = 0}

InitClassify ==
    /\ pc = "start"
    /\ ret = NotCalled
    /\ call \in [fn : {"detect_divergence"}, df : ClsTables, a : ClsArgs]

NextClassify == CallDetectDivergence

SpecClassify == InitClassify /\ [][NextClassify]_vars

\* the j-th of the k most recent entries of a pivot list
Recent(list, k, j) == list[Len(list) - k + j]

\* the indicator pivot matched to the j-th of the k most recent price pivots
MatchOf(c, pp, rp, k, j) ==
    nearest_by_bar(RecentOf(c), Recent(pp, k, j), rp, MaxBarGapFallback(c.a))

\* the k most recent price pivots all align to an indicator pivot
AllAligned(c, pp, rp, k) == \A j \in 1..k : MatchOf(c, pp, rp, k, j) # None

\* price and indicator value at the j-th of the k most recent price pivots
\* and at its match
StepPrice(c, pp, k, j) == Loc(c.df, "Close", Recent(pp, k, j))
StepRsi(c, pp, rp, k, j) == Loc(c.df, "RSI", MatchOf(c, pp, rp, k, j))

\* the indices tuple of the k most recent price pivots and their matches
TupleOf(c, pp, rp, k) ==
    [j \in 1..(2 * k) |-> IF j <= k THEN Recent(pp, k, j)
                          ELSE MatchOf(c, pp, rp, k, j - k)]

\* the rule as claimed, for k points: price within (1 + tolerance) of the
\* previous one and indicator steps of at least 0.5 plus the extra tolerance
ClaimedRule(c, pp, rp, kind, k) ==
    /\ Len(pp) >= k
    /\ AllAligned(c, pp, rp, k)
    /\ \A j \in 1..(k - 1) :
          IF kind = "low"
          THEN /\ LeTolUp(StepPrice(c, pp, k, j + 1), StepPrice(c, pp, k, j),
                          c.a.sequence_tolerance_pct)
               /\ StepRsi(c, pp, rp, k, j + 1) - StepRsi(c, pp, rp, k, j)
                     >= BULLISH_RSI_TOLERANCE + c.a.rsi_sequence_tolerance
          ELSE /\ GeTolDown(StepPrice(c, pp, k, j + 1), StepPrice(c, pp, k, j),
                            c.a.sequence_tolerance_pct)
               /\ StepRsi(c, pp, rp, k, j) - StepRsi(c, pp, rp, k, j + 1)
                     >= BEARISH_RSI_TOLERANCE + c.a.rsi_sequence_tolerance

\* the 3-point rule of the code: price at most (1 - tolerance) of the previous
\* low, at least (1 + tolerance) of the previous high; indicator steps of at
\* least the larger of 0.5 and the extra tolerance
ThreePointRule(c, pp, rp, kind) ==
    /\ Len(pp) >= 3 /\ Len(rp) >= 3
    /\ AllAligned(c, pp, rp, 3)
    /\ \A j \in 1..2 :
          LET pa == StepPrice(c, pp, 3, j)
              pb == StepPrice(c, pp, 3, j + 1)
              ra == StepRsi(c, pp, rp, 3, j)
              rb == StepRsi(c, pp, rp, 3, j + 1)
              t  == c.a.sequence_tolerance_pct
          IN  IF kind = "low"
              THEN /\ pb * t.den <= pa * (t.den - t.num)
                   /\ rb - ra >= BULLISH_RSI_TOLERANCE
                   /\ rb - ra >= c.a.rsi_sequence_tolerance
              ELSE /\ pb * t.den >= pa * (t.den + t.num)
                   /\ ra - rb >= BEARISH_RSI_TOLERANCE
                   /\ ra - rb >= c.a.rsi_sequence_tolerance

\* the 2-point rule of the code: price strictly beyond the previous one and an
\* indicator step of at least 0.5; no tolerance enters
TwoPointRule(c, pp, rp, kind) ==
    /\ Len(pp) >= 2 /\ Len(rp) >= 2
    /\ AllAligned(c, pp, rp, 2)
    /\ IF kind = "low"
       THEN /\ StepPrice(c, pp, 2, 2) < StepPrice(c, pp, 2, 1)
            /\ StepRsi(c, pp, rp, 2, 2) - StepRsi(c, pp, rp, 2, 1)
                  >= BULLISH_RSI_TOLERANCE
       ELSE /\ StepPrice(c, pp, 2, 2) > StepPrice(c, pp, 2, 1)
            /\ StepRsi(c, pp, rp, 2, 1) - StepRsi(c, pp, rp, 2, 2)
                  >= BEARISH_RSI_TOLERANCE

\* a call with scoring off that scanned the table
StandardCall ==
    /\ pc = "detected"
    /\ ~call.a.use_sequence_scoring
    /\ NRows(call.df) >= call.a.lookback

\* C23 (as claimed): with scoring disabled and k = min_swing_points, a bullish
\* k-point candidate is emitted exactly when the k most recent price lows all
\* align to an indicator low and each successive pair has
\* price_next <= price_prev * (1 + tolerance_pct) and an indicator step of at
\* least 0.5 plus the extra tolerance; bearish is the mirror.
C23_AcceptanceAsClaimed ==
    StandardCall =>
        \A kind \in {"low", "high"} :
            LET pv == PivotsOf(call)
                pp == IF kind = "low" THEN pv.price_low_idx
                      ELSE pv.price_high_idx
                rp == IF kind = "low" THEN pv.rsi_low_idx ELSE pv.rsi_high_idx
                k  == call.a.min_swing_points
            IN  (Found(ret, kind) /\ Len(IndicesOf(ret, kind)) = 2 * k)
                    <=> ClaimedRule(call, pp, rp, kind, k)

\* C23 (amended): with scoring disabled, a track that has at least
\* min_swing_points price pivots and indicator pivots emits a 3-point
\* candidate exactly when min_swing_points = 3 and the 3-point rule of the code
\* holds, and otherwise a 2-point candidate exactly when the 2-point rule of
\* the code holds; a track with fewer pivots emits nothing.
C23_AcceptanceRule ==
    StandardCall =>
        \A kind \in {"low", "high"} :
            LET pv == PivotsOf(call)
                pp == IF kind = "low" THEN pv.price_low_idx
                      ELSE pv.price_high_idx
                rp == IF kind = "low" THEN pv.rsi_low_idx ELSE pv.rsi_high_idx
                guard == /\ Len(pp) >= call.a.min_swing_points
                         /\ Len(rp) >= call.a.min_swing_points
                three == /\ guard
                         /\ call.a.min_swing_points = 3
                         /\ ThreePointRule(call, pp, rp, kind)
                two   == guard /\ ~three /\ TwoPointRule(call, pp, rp, kind)
            IN  /\ Found(ret, kind) <=> (three \/ two)
                /\ three => /\ DetailsOf(ret, kind) = "3-Point"
                            /\ IndicesOf(ret, kind) = TupleOf(call, pp, rp, 3)
                /\ two => /\ DetailsOf(ret, kind) = "2-Point"
                          /\ IndicesOf(ret, kind) = TupleOf(call, pp, rp, 2)

\* a bullish 3-point candidate under a price tolerance of 50% and an extra
\* indicator tolerance of 1.0: the lows halve and the indicator lows are 1.0
\* apart
C23_Witness ==
    /\ StandardCall
    /\ call.a.min_swing_points = 3
    /\ call.a.rsi_sequence_tolerance = 2
    /\ ret.bullish
    /\ ret.bullish_details = "3-Point"

\* the ATR at the j-th price pivot of a returned candidate
AtrAt(c, e, j) == compute_atr(c.df, c.q.atr_period, PosOf(c.df, e.price_idx[j]))

\* leg j of a returned candidate (from pivot j to pivot j + 1) spans at least
\* min_magnitude_atr_mult times the positive ATR at pivot j
LegMeetsFloor(c, e, j) ==
    LET span == Abs(e.price_vals[j] - e.price_vals[j + 1])
        atr  == AtrAt(c, e, j)
        mult == c.q.min_magnitude_atr_mult
    IN  /\ atr.num > 0
        /\ span * mult.den * atr.den >= mult.num * atr.num

\* C24: every candidate returned by find_three_point_sequences has at least
\* one leg whose absolute price span is at least min_magnitude_atr_mult times
\* the positive ATR at that leg's starting pivot.
C24_MagnitudeFloor ==
    pc = "sequences" =>
        \A k \in 1..Len(ret) :
            LegMeetsFloor(call, ret[k], 1) \/ LegMeetsFloor(call, ret[k], 2)

\* a candidate is returned on the strength of its first leg alone
C24_Witness ==
    /\ pc = "sequences"
    /\ \E k \in 1..Len(ret) :
          /\ LegMeetsFloor(call, ret[k], 1)
          /\ ~LegMeetsFloor(call, ret[k], 2)

\* the sum of the two successive indicator steps of a returned candidate in
\* the direction of the divergence, in half points
RsiSteps(e) ==
    IF e.kind = "low"
    THEN (e.rsi_vals[2] - e.rsi_vals[1]) + (e.rsi_vals[3] - e.rsi_vals[2])
    ELSE (e.rsi_vals[1] - e.rsi_vals[2]) + (e.rsi_vals[2] - e.rsi_vals[3])

\* (span12 + span23) / (2 * ATR at the middle pivot), for a positive ATR
PriceTerm(c, e) ==
    LET atr == AtrAt(c, e, 2)
    IN  Frac((Abs(e.price_vals[1] - e.price_vals[2])
              + Abs(e.price_vals[2] - e.price_vals[3])) * atr.den, 2 * atr.num)

\* C25 (as claimed): for every candidate returned by find_three_point_sequences
\* score = (span12 + span23) / (2 * ATR at the middle price pivot) + (sum of
\* the two indicator steps) / 10, the price term being present in the score of
\* every returned candidate.
C25_ScoreFormulaAlways ==
    pc = "sequences" =>
        \A k \in 1..Len(ret) :
            /\ AtrAt(call, ret[k], 2).num > 0
            /\ SameScore(ret[k].score,
                         FracAdd(PriceTerm(call, ret[k]),
                                 Frac(RsiSteps(ret[k]), 20)))

\* C25 (amended): the same when the ATR at the middle price pivot is positive;
\* when it is zero the price term is left out and the score is the indicator
\* term alone.
C25_ScoreFormula ==
    pc = "sequences" =>
        \A k \in 1..Len(ret) :
            IF AtrAt(call, ret[k], 2).num > 0
            THEN SameScore(ret[k].score,
                           FracAdd(PriceTerm(call, ret[k]),
                                   Frac(RsiSteps(ret[k]), 20)))
            ELSE SameScore(ret[k].score, Frac(RsiSteps(ret[k]), 20))

\* a candidate whose score has both terms
C25_Witness ==
    /\ pc = "sequences"
    /\ Len(ret) >= 1
    /\ AtrAt(call, ret[1], 2).num > 0
    /\ RsiSteps(ret[1]) > 0
    /\ ~FracGe(Frac(RsiSteps(ret[1]), 20), ret[1].score)

\* the flag of a direction of a result
FlagOf(r, kind) == IF kind = "low" THEN r.bullish ELSE r.bearish

\* the positions in the table of the labels of an indices tuple
PositionsOf(df, indices) ==
    [k \in 1..Len(indices) |-> PosOf(df, indices[k])]

\* the positions of the last `lookback` bars of a table
LastBars(df, lookback) ==
    {i \in 0..(NRows(df) - 1) : i >= NRows(df) - lookback}

\* one direction of a result record is consistent: flag, indices and details
\* are set together, the tuple is 2 + 2 or 3 + 3 labels of the last `lookback`
\* bars, the price positions increasing
ConsistentTrack(df, lookback, r, kind) ==
    LET indices == IndicesOf(r, kind)
        pos == PositionsOf(df, indices)
        n == Len(indices) \div 2
    IN  /\ FlagOf(r, kind) <=> indices # NoIndices
        /\ FlagOf(r, kind) <=> DetailsOf(r, kind) # ""
        /\ indices # NoIndices =>
              /\ Len(indices) \in {4, 6}
              /\ \A k \in 1..Len(indices) :
                    /\ HasLabel(df, indices[k])
                    /\ pos[k] \in LastBars(df, lookback)
              /\ \A k \in 1..(n - 1) : pos[k] < pos[k + 1]

\* C26: on every path of detect_divergence, for each direction, the flag is
\* True iff the indices tuple is not None iff the details are non-empty; a
\* tuple has 4 or 6 elements, its price positions are strictly increasing and
\* all its positions lie within the last `lookback` bars of the input.
C26_ResultConsistent ==
    (pc = "detected" /\ call.fn = "detect_divergence") =>
        /\ ConsistentTrack(call.df, call.a.lookback, ret, "low")
        /\ ConsistentTrack(call.df, call.a.lookback, ret, "high")

\* a candidate reported from a lookback shorter than the table
C26_Witness ==
    /\ pc = "detected"
    /\ call.fn = "detect_divergence"
    /\ call.a.lookback < NRows(call.df)
    /\ ret.bearish
    /\ Len(ret.bearish_indices) = 4

\* the positions of the indicator pivots of an indices tuple (its second half)
RsiPositions(df, indices) ==
    LET n == Len(indices) \div 2
    IN  [k \in 1..n |-> PosOf(df, indices[n + k])]

NonDecreasing(s) == \A k \in 1..(Len(s) - 1) : s[k] <= s[k + 1]

ThresholdLe(r, t) == r.num * t.den <= t.num * r.den

\* C28: for the same series, divergence position and divergence type, with a
\* positive divergence price and reversal_threshold <= breakout threshold,
\* check_breakout_occurred and check_failed_breakout are never both true.
C28_BreakoutExclusive ==
    (pc = "failed" /\ InIndex(call.df, call.divergence_idx)) =>
        \A threshold \in BrkThresholds :
            (/\ At(call.df.Close, call.divergence_idx) > 0
             /\ ThresholdLe(call.reversal_threshold, threshold)) =>
                ~(/\ ret
                  /\ check_breakout_occurred(call.df, call.divergence_idx,
                                             call.divergence_type, threshold))

\* a failed bullish breakout with a non-zero reversal threshold, whose last
\* close a breakout threshold below the reversal threshold would call a
\* breakout
C28_Witness ==
    /\ pc = "failed"
    /\ ret = TRUE
    /\ call.divergence_type = "bullish"
    /\ call.reversal_threshold.num > 0
    /\ check_breakout_occurred(call.df, call.divergence_idx,
                               call.divergence_type, Frac(0, 1))

\* C29: with min_swing_points = 3, in every mode, a track reports a candidate
\* (3-point or the 2-point fallback) only if the lookback window holds at
\* least 3 price pivots and at least 3 indicator pivots of the track's kind;
\* with fewer the track reports nothing, even when its two most recent pivots
\* would pass the 2-point check.
C29_ThreePivotsNeeded ==
    (ScannedCall /\ call.fn = "detect_divergence"
                 /\ call.a.min_swing_points = 3) =>
        \A kind \in {"low", "high"} :
            (Len(PricePivots(call, kind)) < 3 \/ Len(RsiPivots(call, kind)) < 3)
                => /\ ~FlagOf(ret, kind)
                   /\ IndicesOf(ret, kind) = NoIndices

\* a track with two price lows that pass the 2-point check and that reports
\* nothing because min_swing_points is 3
C29_Witness ==
    /\ ScannedCall
    /\ call.fn = "detect_divergence"
    /\ call.a.min_swing_points = 3
    /\ Len(PricePivots(call, "low")) = 2
    /\ Len(RsiPivots(call, "low")) >= 2
    /\ TwoPoint(RecentOf(call), PricePivots(call, "low"),
                RsiPivots(call, "low"), "low", call.a) # Nothing
    /\ ~ret.bullish

\* the position of the final price pivot of an indices tuple
FinalPricePosition(df, indices) == PosOf(df, indices[Len(indices) \div 2])

\* C30: when detect_divergence reports both a bullish and a bearish candidate
\* in one call, last_signal names the direction whose final price pivot is at
\* the later position in the series.
C30_LastSignalMostRecent ==
    (pc = "detected" /\ ret.bullish /\ ret.bearish) =>
        LET low == FinalPricePosition(call.df, ret.bullish_indices)
            high == FinalPricePosition(call.df, ret.bearish_indices)
        IN  /\ low > high => ret.last_signal = "bullish"
            /\ high > low => ret.last_signal = "bearish"
====
